---- MODULE Spec2Model ----
(***************************************************************************)
(* Model of the scraping core of soomgo-agent: the two central stores      *)
(* (src/scraper/central_db.py, src/scraper/message_central_db.py) and the  *)
(* message worker pool (src/scraper/chat_message_scraper.py).              *)
(*                                                                         *)
(* A pydantic item is a record; a Python dict (insertion ordered) is a     *)
(* sequence of items with pairwise distinct ids; a JSON-lines file is a    *)
(* sequence of lines, a line being <<"json", object>> or <<"text", s>>.    *)
(***************************************************************************)
EXTENDS Integers, Sequences, FiniteSets, TLC

\* ------------------------------------------------------------------ bounds
MaxId == 2          \* record ids 1..MaxId of the enumerated store inputs
MaxIncoming == 2    \* length of an enumerated incoming list
MaxChats == 2       \* chats selected for a message run
MaxWorkers == 2     \* the `workers` argument of a message run
MaxCalls == 1       \* decoded message payloads intercepted per chat
MaxErrors == 1      \* undecodable message payloads intercepted per chat
MaxRaised == 1      \* worker tasks of a run that end with an exception
MaxPage == 2        \* items of one chat list page
MaxDriverCalls == 2 \* payloads intercepted during one driver run
MaxDryRun == 2      \* the dry_run_limit of a list run
MaxCycles == 2      \* the max_scrolls of a driver run on its own
MaxScrolls == 1     \* the max_scrolls argument of scroll_until_complete
MaxResponses == 2   \* responses a page emits
MaxLines == 3       \* lines of a store file found on disk
MaxBatch == 3       \* items of one batch offered to a tracker
MaxBatches == 2     \* batches offered to one tracker
MaxRecords == 2     \* records handed to one DataQualityAnalyzer
MaxAssigned == 5    \* chats handed to the assignment loop on its own
MaxAssignWorkers == 3 \* the `workers` argument of the assignment loop on its own

Ids == 1..MaxId
\* created_at / updated_at values (ISO-8601 strings compare like these numbers);
\* two of them tell an overwritten record from the old one and give ties and
\* inversions between id order and time order.
Stamps == {1, 2}

\* ------------------------------------------------------------------ items
\* ChatItem and MessageItem, cut down to the fields the stores and their test
\* read: the id (dict key, list sort key), created_at (message sort key) and,
\* for a chat, updated_at (what a later run of the list scraper changes).
ChatItemOf(i, u) == [id |-> i, created_at |-> 1, updated_at |-> u]
MessageItemOf(i, c) == [id |-> i, created_at |-> c]
ChatItems == {ChatItemOf(i, u) : i \in Ids, u \in Stamps}
MessageItems == {MessageItemOf(i, c) : i \in Ids, c \in Stamps}

\* ------------------------------------------------------------- sequences
Range(s) == {s[i] : i \in DOMAIN s}

RECURSIVE SeqsUpTo(_, _)
SeqsUpTo(S, n) ==
    IF n = 0 THEN {<<>>}
    ELSE LET shorter == SeqsUpTo(S, n - 1)
         IN  shorter \cup {Append(q, x) : q \in {r \in shorter : Len(r) = n - 1}, x \in S}

\* ------------------------------------------------------------------ dicts
Keys(d) == {d[i].id : i \in DOMAIN d}
DistinctIds(d) == \A i, j \in DOMAIN d : d[i].id = d[j].id => i = j
Get(d, k) == d[CHOOSE i \in DOMAIN d : d[i].id = k]
\* the mapping a dict stands for, insertion order forgotten
AsMap(d) == [k \in Keys(d) |-> Get(d, k)]
\* a dict that keeps the record it already holds for an id
PutKeepsOld(d, x) == IF x.id \in Keys(d) THEN d ELSE Append(d, x)

\* dict[item.id] = item : overwrite in place, or insert at the end
Put(d, x) ==
    IF x.id \in Keys(d)
    THEN [i \in DOMAIN d |-> IF d[i].id = x.id THEN x ELSE d[i]]
    ELSE Append(d, x)

\* ------------------------------------------------------------------ paths
ListPath == <<"chat_list_master", 0, "jsonl">>
\* one file for the messages of every chat
get_chat_file_path_shared(chat_id) == <<"chat", 1, "jsonl">>
get_chat_file_path(chat_id) == <<"chat", chat_id, "jsonl">>
\* a save that writes straight into the target file
with_suffix_same(p) == p
with_suffix_tmp(p) == <<p[1], p[2], "tmp">>
IsListPath(p) == p[1] = "chat_list_master"

\* the model class of a store and its required fields
ItemsAt(p) == IF IsListPath(p) THEN ChatItems ELSE MessageItems
RequiredFields(p) ==
    IF IsListPath(p) THEN {"id", "created_at", "updated_at"} ELSE {"id", "created_at"}

NoFile == [exists |-> FALSE, lines |-> <<>>]
FileOf(ls) == [exists |-> TRUE, lines |-> ls]

\* ----------------------------------------------------------------- merge
\* merge_and_update of both stores: the loop over the incoming list.
RECURSIVE MergeLoop(_, _, _, _)
MergeLoop(merged, new_count, updated_count, rest) ==
    IF rest = <<>>
    THEN [merged |-> merged, new_count |-> new_count, updated_count |-> updated_count]
    ELSE LET x == Head(rest)
         IN  IF x.id \in Keys(merged)
             THEN MergeLoop(Put(merged, x), new_count, updated_count + 1, Tail(rest))
             ELSE MergeLoop(Put(merged, x), new_count + 1, updated_count, Tail(rest))

\* both branches of the loop counting into new_count
RECURSIVE MergeLoopAllNew(_, _, _, _)
MergeLoopAllNew(merged, new_count, updated_count, rest) ==
    IF rest = <<>>
    THEN [merged |-> merged, new_count |-> new_count, updated_count |-> updated_count]
    ELSE MergeLoopAllNew(Put(merged, Head(rest)), new_count + 1, updated_count, Tail(rest))

merge_and_update_all_new(existing_d, new_items) == MergeLoopAllNew(existing_d, 0, 0, new_items)

merge_and_update(existing_d, new_items) == MergeLoop(existing_d, 0, 0, new_items)

\* ------------------------------------------------------------------ save
\* sorted(values, key=...): Python's sort is stable; insertion sort is too.
SortKey(p, x) == IF IsListPath(p) THEN x.id ELSE x.created_at

RECURSIVE InsertSorted(_, _, _)
InsertSorted(p, s, x) ==
    IF s = <<>> THEN <<x>>
    ELSE IF SortKey(p, x) < SortKey(p, s[Len(s)])
         THEN Append(InsertSorted(p, SubSeq(s, 1, Len(s) - 1), x), s[Len(s)])
         ELSE Append(s, x)

\* a save that writes the values in the order of the dict
SortedValuesAsInserted(p, d) == d

RECURSIVE SortedValues(_, _)
SortedValues(p, d) ==
    IF d = <<>> THEN <<>>
    ELSE InsertSorted(p, SortedValues(p, SubSeq(d, 1, Len(d) - 1)), d[Len(d)])

\* a dump that leaves the timestamp out
model_dump_json_no_stamp(x) == <<"json", [f \in {"id"} |-> x[f]]>>

\* model_dump_json() + '\n'
model_dump_json(x) == <<"json", x>>

\* ------------------------------------------------------------------ load
\* json.loads(line) then ChatItem(**data) / MessageItem(**data): a line that is
\* no JSON object, or an object without the required fields, is skipped.
LineParses(p, line) == line[1] = "json" /\ RequiredFields(p) \subseteq DOMAIN line[2]
ParseLine(p, line) == [f \in RequiredFields(p) |-> line[2][f]]

\* a load that gives up at the first line it cannot use
RECURSIVE LoadLinesUntilBad(_, _, _)
LoadLinesUntilBad(p, d, ls) ==
    IF ls = <<>> THEN d
    ELSE IF LineParses(p, Head(ls))
         THEN LoadLinesUntilBad(p, Put(d, ParseLine(p, Head(ls))), Tail(ls))
         ELSE d

RECURSIVE LoadLines(_, _, _)
LoadLines(p, d, ls) ==
    IF ls = <<>> THEN d
    ELSE IF LineParses(p, Head(ls))
         THEN LoadLines(p, Put(d, ParseLine(p, Head(ls))), Tail(ls))
         ELSE LoadLines(p, d, Tail(ls))

\* load() when reading the file raises after n of its lines (open() itself for
\* n = 0): the outer except logs the error and returns what was read so far
load_interrupted(p, files, n) == LoadLines(p, <<>>, SubSeq(files[p].lines, 1, n))

\* load() of the list store / load_chat_messages(chat_id), reading path p
load(p, files) == IF ~files[p].exists THEN <<>> ELSE LoadLines(p, <<>>, files[p].lines)

\* ------------------------------------------------------------ store session
\* One client of a store: chat_list_scraper.scrape_chat_list (list store) or one
\* chat of scrape_worker (message store) doing load, merge_and_update, save.
VARIABLES
    fs,            \* the data directory: path -> file
    target,        \* db_path / get_chat_file_path(chat_id) of the session
    existing,      \* the `existing` argument of the last merge_and_update
    incoming,      \* the list handed to merge_and_update
    result,        \* (merged, new_count, updated_count) of the last call
    prev_result,   \* the result of the call before it
    merge_calls,   \* merge_and_update calls of this run
    sorted_items,  \* sorted_chats / sorted_messages inside save
    loaded,        \* what load() returned after the save
    spc            \* where the session is

storeVars == <<target, existing, incoming, result, prev_result, merge_calls,
               sorted_items, loaded, spc>>

\* ------------------------------------------------------------- worker pool
\* scrape_chat_messages from the chat selection on, and its scrape_worker tasks.
VARIABLES
    dry_run,             \* the dry_run argument
    workers,             \* the workers argument
    filtered_chats,      \* ids of the list store's chats after the date filter
    skip_existing,       \* the skip_existing argument
    chats_to_scrape,     \* ids of the selected chats, in order
    worker_assignments,  \* worker id -> its list of chat ids
    ppc,                 \* where scrape_chat_messages is
    wpc,                 \* worker id -> where the worker task is
    idx,                 \* worker id -> chats of its list it is through with
    scraper,             \* worker id -> the ChatMessageScraper of its current chat
    worker_statuses,     \* worker id -> its list of ChatScrapingStatus
    cur,                 \* the task running between two awaits (NoTask: none)
    fs0,                 \* history: the data directory when the run started
    scraped,             \* history: chat id -> the scraper as its scrape returned
    worker_humanization  \* worker id -> total_wait_time of its HumanizationTracker

poolVars == <<dry_run, workers, filtered_chats, skip_existing, chats_to_scrape,
              worker_assignments, ppc, wpc, idx,
              scraper, worker_statuses, cur, fs0, scraped, worker_humanization>>

\* ------------------------------------------------------------- run logger
\* What a run (scrape_chat_messages, scrape_chat_list) keeps beside its workers.
VARIABLES
    chat_statuses,  \* the statuses aggregated from the worker results
    metadata,       \* run_logger.metadata
    run_dir,        \* the files of run_logger.run_dir
    rpc,            \* where the run function is outside its worker pool
    outcome         \* how the call of the run function ended, and a raised error

runVars == <<chat_statuses, metadata, run_dir, rpc, outcome>>

\* ------------------------------------------------------ pagination driver
\* One ChatListScraper or ChatMessageScraper scrolling until complete.
VARIABLES
    kind,    \* "list" or "messages"
    driver,  \* the scraper object
    config,  \* dry_run, dry_run_limit, date_filter, max_scrolls
    dpc,     \* where the driver is
    dlog,    \* what the driver and its run logged
    hist     \* history: what was intercepted so far

driverVars == <<kind, driver, config, dpc, dlog, hist>>
\* ------------------------------------------------------------ single units
\* One object of the scraping core exercised on its own: the handlers of a
\* page, an item tracker, the quality analyzer.
VARIABLES
    page,           \* the scrapers whose intercept_api_response is registered on the page
    page0,          \* history: the scrapers before the last response
    response,       \* history: the last response the page emitted
    dispatched,     \* responses emitted so far
    tracker,        \* a ChatListTracker or MessageTracker
    tracker0,       \* history: the tracker before the last call
    response_data,  \* history: the argument of the last add_..._from_response
    new_count,      \* history: what that call returned
    batches,        \* calls so far
    analyzer_chats, \* DataQualityAnalyzer.chats
    report          \* DataQualityAnalyzer.report

unitVars == <<page, page0, response, dispatched, tracker, tracker0, response_data,
              new_count, batches, analyzer_chats, report>>
vars == <<fs, storeVars, poolVars, runVars, driverVars, unitVars>>

ChatIds == 1..MaxChats
StorePaths == {ListPath} \cup {get_chat_file_path(c) : c \in ChatIds}
Paths == StorePaths \cup {with_suffix_tmp(p) : p \in StorePaths}

NoResult == [merged |-> <<>>, new_count |-> 0, updated_count |-> 0]

\* the dicts a client can hold: items with pairwise distinct ids
Dicts(p) == {d \in SeqsUpTo(ItemsAt(p), MaxId) : DistinctIds(d)}
DumpAll(items) == [i \in DOMAIN items |-> model_dump_json(items[i])]
\* the files save can have left at path p
SavedFiles(p) == {FileOf(DumpAll(SortedValues(p, d))) : d \in Dicts(p)}
IncomingLists(p) == SeqsUpTo(ItemsAt(p), MaxIncoming)

\* test_central_database, test 2: five stored chats, a run with three of them
\* updated and two new ones.
ScenarioStored == [i \in 1..5 |-> ChatItemOf(i, 1)]
ScenarioRun2 ==
    <<ChatItemOf(1, 2), ChatItemOf(2, 2), ChatItemOf(3, 2), ChatItemOf(6, 1), ChatItemOf(7, 1)>>

StoreStart(p, f, l) ==
    /\ target = p
    /\ fs = [q \in Paths |-> IF q = p THEN f ELSE NoFile]
    /\ incoming = l
    /\ existing = <<>>
    /\ result = NoResult
    /\ prev_result = NoResult
    /\ merge_calls = 0
    /\ sorted_items = <<>>
    /\ loaded = <<>>
    /\ spc = "start"

\* the pool is not running during a store session
PoolIdle ==
    /\ dry_run = FALSE
    /\ workers = 1
    /\ filtered_chats = <<>>
    /\ skip_existing = FALSE
    /\ chats_to_scrape = <<>>
    /\ worker_assignments = <<>>
    /\ ppc = "off"
    /\ wpc = <<>>
    /\ idx = <<>>
    /\ scraper = <<>>
    /\ worker_statuses = <<>>
    /\ cur = 0 - 1
    /\ fs0 = <<>>
    /\ scraped = <<>>
    /\ worker_humanization = <<>>

\* no run logger exists
RunIdle ==
    /\ chat_statuses = <<>>
    /\ metadata = <<>>
    /\ run_dir = [f \in {"failed_chats.jsonl", "run_summary.json"} |-> NoFile]
    /\ rpc = "off"
    /\ outcome = [how |-> "off", error |-> "none"]

\* no driver exists
DriverIdle ==
    /\ kind = "off"
    /\ driver = <<>>
    /\ config = <<>>
    /\ dpc = "off"
    /\ dlog = {}
    /\ hist = <<>>

\* page.on was never called, no response was emitted
NoResponse == [url |-> <<>>, status |-> 0, decodes |-> FALSE, object |-> TRUE,
               writable |-> TRUE, data |-> [next |-> 0, results |-> <<>>]]
\* no tracker was constructed
NoTracker == [cls |-> "off", all |-> <<>>, ids |-> {}, duplicate_count |-> 0]
\* no analyzer was constructed
\* DataQualityReport(generated_at=datetime.now(), total_records=total): the
\* field defaults; analyzed tells whether analyze() has run.
\* overall_completeness_percent and the unrounded score are kept as fractions,
\* quality_score (rounded to two decimals) in hundredths
DataQualityReport(total) ==
    [total_records |-> total,
     completeness_summary |-> <<>>,
     overall_completeness_percent |-> [num |-> 0, den |-> 1],
     valid_records_count |-> 0,
     invalid_records_count |-> 0,
     validation_issues |-> <<>>,
     duplicate_ids |-> <<>>,
     timeline_inconsistencies |-> <<>>,
     anomalies |-> <<>>,
     quality_score |-> 0,
     quality_grade |-> "Unknown",
     analyzed |-> FALSE]
NoReport == DataQualityReport(0)

\* no unit is exercised
UnitIdle ==
    /\ page = <<>>
    /\ page0 = <<>>
    /\ response = NoResponse
    /\ dispatched = 0
    /\ tracker = NoTracker
    /\ tracker0 = NoTracker
    /\ response_data = [results |-> <<>>]
    /\ new_count = 0
    /\ batches = 0
    /\ analyzer_chats = <<>>
    /\ report = NoReport

StoreInit ==
    /\ \/ \E p \in {ListPath, get_chat_file_path(1)} :
             \E l \in IncomingLists(p), f \in {NoFile} \cup SavedFiles(p) :
                 StoreStart(p, f, l)
       \/ StoreStart(ListPath, FileOf(DumpAll(ScenarioStored)), ScenarioRun2)
    /\ PoolIdle
    /\ RunIdle
    /\ DriverIdle
    /\ UnitIdle

\* existing = db.load()
Load ==
    /\ spc = "start"
    /\ existing' = load(target, fs)
    /\ spc' = "loaded"
    /\ UNCHANGED <<fs, target, incoming, result, prev_result, merge_calls,
                   sorted_items, loaded>>
    /\ UNCHANGED <<poolVars, runVars, driverVars, unitVars>>

\* merged, new_count, updated_count = db.merge_and_update(existing, incoming);
\* a second call gets the first call's merged dict.
MergeAndUpdate ==
    /\ spc \in {"loaded", "merged"}
    /\ merge_calls < 2
    /\ LET arg == IF spc = "loaded" THEN existing ELSE result.merged
       IN  /\ existing' = arg
           /\ result' = merge_and_update(arg, incoming)
    /\ prev_result' = result
    /\ merge_calls' = merge_calls + 1
    /\ spc' = "merged"
    /\ UNCHANGED <<fs, target, incoming, sorted_items, loaded>>
    /\ UNCHANGED <<poolVars, runVars, driverVars, unitVars>>

\* save, up to open(temp_path, 'w'): sort, then create or truncate the temp file
SaveBegin ==
    /\ spc = "merged"
    /\ sorted_items' = SortedValues(target, result.merged)
    /\ fs' = [fs EXCEPT ![with_suffix_tmp(target)] = FileOf(<<>>)]
    /\ spc' = "writing"
    /\ UNCHANGED <<target, existing, incoming, result, prev_result, merge_calls, loaded>>
    /\ UNCHANGED <<poolVars, runVars, driverVars, unitVars>>

\* f.write(json_line) for the next item
SaveWriteLine ==
    /\ spc = "writing"
    /\ LET tmp == with_suffix_tmp(target)
           n == Len(fs[tmp].lines)
       IN  /\ n < Len(sorted_items)
           /\ fs' = [fs EXCEPT ![tmp] =
                        FileOf(Append(fs[tmp].lines, model_dump_json(sorted_items[n + 1])))]
    /\ UNCHANGED storeVars
    /\ UNCHANGED <<poolVars, runVars, driverVars, unitVars>>

\* temp_path.replace(db_path)
SaveRename ==
    /\ spc = "writing"
    /\ LET tmp == with_suffix_tmp(target)
       IN  /\ Len(fs[tmp].lines) = Len(sorted_items)
           /\ fs' = [fs EXCEPT ![target] = fs[tmp], ![tmp] = NoFile]
    /\ spc' = "saved"
    /\ UNCHANGED <<target, existing, incoming, result, prev_result, merge_calls,
                   sorted_items, loaded>>
    /\ UNCHANGED <<poolVars, runVars, driverVars, unitVars>>

\* an I/O error anywhere in save before the rename took effect (open, write,
\* replace): logged and re-raised; the temp file stays as far as it got
SaveRaise ==
    /\ spc \in {"merged", "writing"}
    /\ spc' = "save_failed"
    /\ UNCHANGED <<fs, target, existing, incoming, result, prev_result, merge_calls,
                   sorted_items, loaded>>
    /\ UNCHANGED <<poolVars, runVars, driverVars, unitVars>>

\* a later load() of the saved store
Reload ==
    /\ spc = "saved"
    /\ loaded' = load(target, fs)
    /\ spc' = "reloaded"
    /\ UNCHANGED <<fs, target, existing, incoming, result, prev_result, merge_calls,
                   sorted_items>>
    /\ UNCHANGED <<poolVars, runVars, driverVars, unitVars>>

\* the next run over the same store, delivering the same list again
Rerun ==
    /\ spc \in {"save_failed", "reloaded"}
    /\ spc' = "start"
    /\ merge_calls' = 0
    /\ result' = NoResult
    /\ prev_result' = NoResult
    /\ UNCHANGED <<fs, target, existing, incoming, sorted_items, loaded>>
    /\ UNCHANGED <<poolVars, runVars, driverVars, unitVars>>

StoreNext ==
    \/ Load
    \/ MergeAndUpdate
    \/ SaveBegin
    \/ SaveWriteLine
    \/ SaveRename
    \/ SaveRaise
    \/ Reload
    \/ Rerun

SpecStore == StoreInit /\ [][StoreNext]_vars

\* ------------------------------------------------------ message scraper
NoTask == 0 - 1
WorkerIds == 0..(workers - 1)

\* ChatMessageScraper.__init__
NewScraper(chat_id) ==
    [chat_id |-> chat_id, all_messages |-> <<>>, api_call_count |-> 0,
     scroll_count |-> 0, has_more_messages |-> TRUE, api_intercept_errors |-> 0]

\* What the messages endpoint can deliver for a chat: message 1 as edited since
\* it was stored, and a message 2 that is new and older than it.
UpstreamMessages == {MessageItemOf(1, 2), MessageItemOf(2, 1)}
\* what a chat's file can hold before the run
StoredBefore == {NoFile, FileOf(<<model_dump_json(MessageItemOf(1, 1))>>)}
\* {next, results} payloads; next is 0 for null
Payloads == [next : {0, 1}, results : SeqsUpTo(UpstreamMessages, 1)]

\* ------------------------------------------------------------- trackers
\* ChatListTracker and MessageTracker: the items kept so far, the ids seen, and
\* the count of offered items whose id was seen before.
NewTracker(cls) == [cls |-> cls, all |-> <<>>, ids |-> {}, duplicate_count |-> 0]
ItemFields(cls) ==
    IF cls = "ChatListTracker" THEN RequiredFields(ListPath)
    ELSE RequiredFields(get_chat_file_path(1))
\* ChatItem(**chat_data) / MessageItem(**data) does not raise
Validates(cls, x) == ItemFields(cls) \subseteq DOMAIN x
Validated(cls, x) == [f \in ItemFields(cls) |-> x[f]]

\* the loop over the results: append an item with an unseen id and count it,
\* count a duplicate; an item that does not validate is passed over
RECURSIVE AddLoop(_, _, _)
AddLoop(tr, n, rest) ==
    IF rest = <<>> THEN [tracker |-> tr, new_count |-> n]
    ELSE LET x == Head(rest)
         IN  IF ~Validates(tr.cls, x) THEN AddLoop(tr, n, Tail(rest))
             ELSE IF x.id \in tr.ids
                  THEN AddLoop([tr EXCEPT !.duplicate_count = @ + 1], n, Tail(rest))
                  ELSE AddLoop([tr EXCEPT !.all = Append(@, Validated(tr.cls, x)),
                                          !.ids = @ \cup {x.id}], n + 1, Tail(rest))

\* MessageTracker.add_messages_from_response: MessageListResponse(**response_data)
\* validates every item of results before the loop starts; when it raises, the
\* except branch returns 0
add_messages_from_response(tr, data) ==
    IF \E i \in DOMAIN data.results : ~Validates(tr.cls, data.results[i])
    THEN [tracker |-> tr, new_count |-> 0]
    ELSE AddLoop(tr, 0, data.results)

\* ChatListTracker.add_chat(chat), chat a ChatItem: new_count is 1 for True
add_chat(tr, chat) ==
    IF chat.id \in tr.ids
    THEN [tracker |-> [tr EXCEPT !.duplicate_count = @ + 1], new_count |-> 0]
    ELSE [tracker |-> [tr EXCEPT !.all = Append(@, chat), !.ids = @ \cup {chat.id}],
          new_count |-> 1]

\* a list tracker that keeps the latest record of an id
add_chats_from_response_replacing(tr, data) ==
    LET r == AddLoop(tr, 0, data.results)
        latest(x) == IF \E j \in DOMAIN data.results :
                           Validates(tr.cls, data.results[j]) /\ data.results[j].id = x.id
                     THEN LET j == CHOOSE j \in DOMAIN data.results :
                                     /\ Validates(tr.cls, data.results[j])
                                     /\ data.results[j].id = x.id
                                     /\ \A k \in DOMAIN data.results :
                                           (Validates(tr.cls, data.results[k])
                                            /\ data.results[k].id = x.id) => k <= j
                          IN  Validated(tr.cls, data.results[j])
                     ELSE x
    IN  [r EXCEPT !.tracker.all = [i \in DOMAIN @ |-> latest(@[i])]]

\* a list tracker that does not count what it has seen before
add_chats_from_response_uncounted(tr, data) ==
    LET r == AddLoop(tr, 0, data.results)
    IN  [r EXCEPT !.tracker.duplicate_count = tr.duplicate_count]

\* ChatListTracker.add_chats_from_response: ChatItem(**chat_data) and add_chat
\* inside a try of their own for every item
add_chats_from_response(tr, data) == AddLoop(tr, 0, data.results)

\* tracker.all_messages after add_messages_from_response
AddMessages(all_messages, results) ==
    add_messages_from_response(
        [cls |-> "MessageTracker", all |-> all_messages, ids |-> Keys(all_messages),
         duplicate_count |-> 0], [results |-> results]).tracker.all

\* a handler in which the last payload decides whether there is more
InterceptedLastWins(sc, data) ==
    [sc EXCEPT !.api_call_count = @ + 1,
               !.has_more_messages = data.next # 0,
               !.all_messages = AddMessages(@, data.results)]

\* a handler that only counts a payload without results
InterceptedSkipsEmpty(sc, data) ==
    IF data.results = <<>> THEN [sc EXCEPT !.api_call_count = @ + 1]
    ELSE [sc EXCEPT !.api_call_count = @ + 1,
                    !.has_more_messages = IF data.next = 0 THEN FALSE ELSE @,
                    !.all_messages = AddMessages(@, data.results)]

\* intercept_api_response, body decoded
Intercepted(sc, data) ==
    [sc EXCEPT !.api_call_count = @ + 1,
               !.has_more_messages = IF data.next = 0 THEN FALSE ELSE @,
               !.all_messages = AddMessages(@, data.results)]

\* the validation of scrape_worker: (is_suspicious, failure_reason)
ZeroAfterScrolls(sc) == Len(sc.all_messages) = 0 /\ sc.scroll_count > 0
InterceptErrors(sc) == sc.api_intercept_errors > 0
\* a validation without the intercept error branch
IsSuspiciousZeroOnly(sc) == ZeroAfterScrolls(sc)
\* a validation that lets everything through
IsSuspiciousNever(sc) == FALSE
IsSuspicious(sc) == ZeroAfterScrolls(sc) \/ InterceptErrors(sc)
NoError == <<"none", 0>>
FailureReason(sc) ==
    IF ZeroAfterScrolls(sc) THEN <<"0 messages after scrolls", sc.scroll_count>>
    ELSE IF InterceptErrors(sc) THEN <<"API intercept errors", sc.api_intercept_errors>>
    ELSE NoError

\* ChatScrapingStatus of a scrape that returned
StatusOf(sc) ==
    [chat_id |-> sc.chat_id,
     status |-> IF IsSuspicious(sc) THEN "failed" ELSE "success",
     message_count |-> Len(sc.all_messages),
     api_calls |-> sc.api_call_count,
     scroll_iterations |-> sc.scroll_count,
     error |-> IF IsSuspicious(sc) THEN FailureReason(sc) ELSE NoError]

\* ChatScrapingStatus of the except branch
FailedStatus(chat_id, what) ==
    [chat_id |-> chat_id, status |-> "failed", message_count |-> 0, api_calls |-> 0,
     scroll_iterations |-> 0, error |-> <<what, 0>>]

\* ------------------------------------------------------------- partition
\* for idx, chat in enumerate(chats_to_scrape): worker_assignments[idx % workers].append(chat)
RECURSIVE Assign(_, _, _, _)
Assign(assignments, chats, i, n) ==
    IF i > Len(chats) THEN assignments
    ELSE Assign([assignments EXCEPT ![(i - 1) % n] = Append(@, chats[i])], chats, i + 1, n)

\* an assignment loop that stops one chat short
RoundRobinShort(chats, n) ==
    Assign([w \in 0..(n - 1) |-> <<>>], SubSeq(chats, 1, Len(chats) - 1), 1, n)

\* an assignment in contiguous blocks of ceil(len / n) chats
RoundRobinBlocks(chats, n) ==
    LET b == (Len(chats) + n - 1) \div n
    IN  [w \in 0..(n - 1) |->
            SubSeq(chats, w * b + 1, IF (w + 1) * b < Len(chats) THEN (w + 1) * b ELSE Len(chats))]

RoundRobin(chats, n) == Assign([w \in 0..(n - 1) |-> <<>>], chats, 1, n)

\* MessageCentralDB.chat_exists
chat_exists(chat_id, files) == files[get_chat_file_path(chat_id)].exists
\* a selection that takes the chats with a message file along
SelectedAll(filtered, skip, dry, files) == filtered
\* lines 453-469: the skip-existing filter of a non-dry run (no chat_limit given,
\* the dry-run limit not below the number of chats)
Selected(filtered, skip, dry, files) ==
    IF skip /\ ~dry THEN SelectSeq(filtered, LAMBDA c : ~chat_exists(c, files))
    ELSE filtered

\* the selection keeps the order of the list store, which save writes by id
ChatLists == {l \in SeqsUpTo(ChatIds, MaxChats) : \A i, j \in DOMAIN l : i < j => l[i] < l[j]}

\* the files a run writes beside its data files
RunFiles == {"failed_chats.jsonl", "run_summary.json"}
\* MessageScrapingRunMetadata as scrape_chat_messages creates it
MessageScrapingRunMetadata ==
    [status |-> "in_progress", chats_attempted |-> 0, chats_succeeded |-> 0, chats_failed |-> 0,
     total_messages_scraped |-> 0, total_wait_time_seconds |-> 0]
\* RunLogger.finalize: the metadata with its status set, dumped to run_summary.json
finalize(md, files, status) ==
    [files EXCEPT !["run_summary.json"] = FileOf(<<[md EXCEPT !.status = status]>>)]

PoolInit ==
    /\ dry_run \in BOOLEAN
    /\ workers \in 1..MaxWorkers
    /\ filtered_chats \in ChatLists
    /\ skip_existing = FALSE
    /\ chats_to_scrape = <<>>
    /\ fs \in {f \in [Paths -> StoredBefore] :
                  \A q \in Paths : f[q].exists => q \in {get_chat_file_path(c) : c \in ChatIds}}
    /\ fs0 = fs
    /\ worker_assignments = <<>>
    /\ ppc = "select"
    /\ wpc = <<>>
    /\ idx = <<>>
    /\ scraper = <<>>
    /\ worker_statuses = <<>>
    /\ cur = NoTask
    /\ scraped = [c \in ChatIds |-> [returned |-> FALSE, sc |-> NewScraper(c)]]
    /\ worker_humanization = <<>>
    /\ chat_statuses = <<>>
    /\ metadata = MessageScrapingRunMetadata
    /\ run_dir = [f \in RunFiles |-> NoFile]
    /\ rpc = "try"
    /\ outcome = [how |-> "running", error |-> "none"]
    /\ DriverIdle
    /\ UnitIdle
    /\ target = ListPath
    /\ existing = <<>>
    /\ incoming = <<>>
    /\ result = NoResult
    /\ prev_result = NoResult
    /\ merge_calls = 0
    /\ sorted_items = <<>>
    /\ loaded = <<>>
    /\ spc = "off"

\* lines 453-516: select the chats, assign them and start one scrape_worker task
\* per worker
Partition ==
    /\ ppc = "select" /\ rpc = "try"
    /\ chats_to_scrape' = Selected(filtered_chats, skip_existing, dry_run, fs)
    /\ worker_assignments' = RoundRobin(chats_to_scrape', workers)
    /\ wpc' = [w \in WorkerIds |-> "next"]
    /\ idx' = [w \in WorkerIds |-> 0]
    /\ scraper' = [w \in WorkerIds |-> NewScraper(0)]
    /\ worker_statuses' = [w \in WorkerIds |-> <<>>]
    /\ worker_humanization' = [w \in WorkerIds |-> 0]
    /\ ppc' = "running"
    /\ UNCHANGED <<fs, storeVars, dry_run, workers, filtered_chats, skip_existing, cur, fs0,
                   scraped, runVars, driverVars, unitVars>>

CurrentChat(w) == worker_assignments[w][idx[w] + 1]

\* the loop head of scrape_worker up to the first await of scraper.scrape
StartChat(w) ==
    /\ ppc = "running" /\ cur = NoTask
    /\ wpc[w] = "next"
    /\ idx[w] < Len(worker_assignments[w])
    /\ scraper' = [scraper EXCEPT ![w] = NewScraper(CurrentChat(w))]
    /\ wpc' = [wpc EXCEPT ![w] = "scraping"]
    /\ UNCHANGED <<fs, storeVars, dry_run, workers, filtered_chats, skip_existing, chats_to_scrape, worker_assignments,
                   ppc, idx, worker_statuses, cur, fs0, scraped,
                   worker_humanization, runVars, driverVars, unitVars>>

\* the loop of scrape_worker is through: return
WorkerReturn(w) ==
    /\ ppc = "running" /\ cur = NoTask
    /\ wpc[w] = "next"
    /\ idx[w] = Len(worker_assignments[w])
    /\ wpc' = [wpc EXCEPT ![w] = "done"]
    /\ UNCHANGED <<fs, storeVars, dry_run, workers, filtered_chats, skip_existing, chats_to_scrape, worker_assignments,
                   ppc, idx, scraper, worker_statuses, cur, fs0, scraped,
                   worker_humanization, runVars, driverVars, unitVars>>

\* intercept_api_response for a 200 response of this chat's messages endpoint
\* whose body decodes
InterceptResponse(w, data) ==
    /\ ppc = "running" /\ cur = NoTask
    /\ wpc[w] = "scraping"
    /\ scraper[w].api_call_count < MaxCalls
    /\ scraper' = [scraper EXCEPT ![w] = Intercepted(@, data)]
    /\ UNCHANGED <<fs, storeVars, dry_run, workers, filtered_chats, skip_existing, chats_to_scrape, worker_assignments,
                   ppc, wpc, idx, worker_statuses, cur, fs0, scraped,
                   worker_humanization, runVars, driverVars, unitVars>>

\* intercept_api_response when response.json() raises
InterceptError(w) ==
    /\ ppc = "running" /\ cur = NoTask
    /\ wpc[w] = "scraping"
    /\ scraper[w].api_intercept_errors < MaxErrors
    /\ scraper' = [scraper EXCEPT ![w].api_intercept_errors = @ + 1]
    /\ UNCHANGED <<fs, storeVars, dry_run, workers, filtered_chats, skip_existing, chats_to_scrape, worker_assignments,
                   ppc, wpc, idx, worker_statuses, cur, fs0, scraped,
                   worker_humanization, runVars, driverVars, unitVars>>

\* one pass of the loop of scroll_until_complete
ScrollCycle(w) ==
    /\ ppc = "running" /\ cur = NoTask
    /\ wpc[w] = "scraping"
    /\ scraper[w].has_more_messages
    /\ scraper[w].scroll_count < MaxScrolls
    /\ scraper' = [scraper EXCEPT ![w].scroll_count = @ + 1]
    /\ UNCHANGED <<fs, storeVars, dry_run, workers, filtered_chats, skip_existing, chats_to_scrape, worker_assignments,
                   ppc, wpc, idx, worker_statuses, cur, fs0, scraped,
                   worker_humanization, runVars, driverVars, unitVars>>

\* scroll_until_complete leaves its loop and scrape returns tracker.all_messages;
\* the worker runs on without an await
ScrapeReturn(w) ==
    /\ ppc = "running" /\ cur = NoTask
    /\ wpc[w] = "scraping"
    /\ ~scraper[w].has_more_messages \/ scraper[w].scroll_count = MaxScrolls
    /\ scraped' = [scraped EXCEPT ![scraper[w].chat_id] = [returned |-> TRUE, sc |-> scraper[w]]]
    /\ wpc' = [wpc EXCEPT ![w] = "validated"]
    /\ cur' = w
    /\ UNCHANGED <<fs, storeVars, dry_run, workers, filtered_chats, skip_existing, chats_to_scrape, worker_assignments,
                   ppc, idx, scraper, worker_statuses, fs0,
                   worker_humanization, runVars, driverVars, unitVars>>

\* an except branch that goes on without tracking the failure
ChatFailedUntracked(w, what) ==
    /\ worker_statuses' = worker_statuses
    /\ idx' = [idx EXCEPT ![w] = @ + 1]
    /\ wpc' = [wpc EXCEPT ![w] = "next"]
    /\ scraper' = [scraper EXCEPT ![w] = NewScraper(0)]
    /\ cur' = NoTask

\* the except branch of scrape_worker: one failed status, then the next chat
ChatFailed(w, what) ==
    /\ worker_statuses' = [worker_statuses EXCEPT ![w] =
                              Append(@, FailedStatus(scraper[w].chat_id, what))]
    /\ idx' = [idx EXCEPT ![w] = @ + 1]
    /\ wpc' = [wpc EXCEPT ![w] = "next"]
    /\ scraper' = [scraper EXCEPT ![w] = NewScraper(0)]
    /\ cur' = NoTask

\* scraper.scrape raises (navigation timeout, page error)
ScrapeRaise(w) ==
    /\ ppc = "running" /\ cur = NoTask
    /\ wpc[w] = "scraping"
    /\ ChatFailed(w, "scrape error")
    /\ UNCHANGED <<fs, storeVars, dry_run, workers, filtered_chats, skip_existing, chats_to_scrape, worker_assignments,
                   ppc, fs0, scraped,
                   worker_humanization, runVars, driverVars, unitVars>>

\* a worker that saves whatever the mode of the run
WorkerSaveBeginAlways(w) ==
    /\ cur = w /\ wpc[w] = "validated"
    /\ ~IsSuspicious(scraper[w])
    /\ LET p == get_chat_file_path(scraper[w].chat_id)
           existing_messages == load(p, fs)
           merge == merge_and_update(existing_messages, scraper[w].all_messages)
       IN  /\ target' = p
           /\ existing' = existing_messages
           /\ incoming' = scraper[w].all_messages
           /\ result' = merge
           /\ sorted_items' = SortedValues(p, merge.merged)
           /\ fs' = [fs EXCEPT ![with_suffix_tmp(p)] = FileOf(<<>>)]
    /\ wpc' = [wpc EXCEPT ![w] = "writing"]
    /\ UNCHANGED <<prev_result, merge_calls, loaded, spc, dry_run, workers, filtered_chats, skip_existing, chats_to_scrape,
                   worker_assignments, ppc, idx, scraper, worker_statuses, cur, fs0, scraped,
                   worker_humanization, runVars, driverVars, unitVars>>

\* lines 288-294 up to the open of the temp file: load, merge, sort
WorkerSaveBegin(w) ==
    /\ cur = w /\ wpc[w] = "validated"
    /\ ~dry_run /\ ~IsSuspicious(scraper[w])
    /\ LET p == get_chat_file_path(scraper[w].chat_id)
           existing_messages == load(p, fs)
           merge == merge_and_update(existing_messages, scraper[w].all_messages)
       IN  /\ target' = p
           /\ existing' = existing_messages
           /\ incoming' = scraper[w].all_messages
           /\ result' = merge
           /\ sorted_items' = SortedValues(p, merge.merged)
           /\ fs' = [fs EXCEPT ![with_suffix_tmp(p)] = FileOf(<<>>)]
    /\ wpc' = [wpc EXCEPT ![w] = "writing"]
    /\ UNCHANGED <<prev_result, merge_calls, loaded, spc, dry_run, workers, filtered_chats, skip_existing, chats_to_scrape,
                   worker_assignments, ppc, idx, scraper, worker_statuses, cur, fs0, scraped,
                   worker_humanization, runVars, driverVars, unitVars>>

\* f.write(json_line) for the next message
WorkerSaveWriteLine(w) ==
    /\ cur = w /\ wpc[w] = "writing"
    /\ LET tmp == with_suffix_tmp(target)
           n == Len(fs[tmp].lines)
       IN  /\ n < Len(sorted_items)
           /\ fs' = [fs EXCEPT ![tmp] =
                        FileOf(Append(fs[tmp].lines, model_dump_json(sorted_items[n + 1])))]
    /\ UNCHANGED <<storeVars, poolVars, runVars, driverVars, unitVars>>

\* a save that leaves the rename for later
WorkerSaveNoRename(w) ==
    /\ cur = w /\ wpc[w] = "writing"
    /\ Len(fs[with_suffix_tmp(target)].lines) = Len(sorted_items)
    /\ wpc' = [wpc EXCEPT ![w] = "saved"]
    /\ UNCHANGED <<fs, storeVars, dry_run, workers, filtered_chats, skip_existing, chats_to_scrape, worker_assignments, ppc,
                   idx, scraper, worker_statuses, cur, fs0, scraped,
                   worker_humanization, runVars, driverVars, unitVars>>

\* temp_path.replace(file_path)
WorkerSaveRename(w) ==
    /\ cur = w /\ wpc[w] = "writing"
    /\ LET tmp == with_suffix_tmp(target)
       IN  /\ Len(fs[tmp].lines) = Len(sorted_items)
           /\ fs' = [fs EXCEPT ![target] = fs[tmp], ![tmp] = NoFile]
    /\ wpc' = [wpc EXCEPT ![w] = "saved"]
    /\ UNCHANGED <<storeVars, dry_run, workers, filtered_chats, skip_existing, chats_to_scrape, worker_assignments, ppc,
                   idx, scraper, worker_statuses, cur, fs0, scraped,
                   worker_humanization, runVars, driverVars, unitVars>>

\* the locals of the chat's iteration (scraper, existing_messages, merged, ...)
\* go out of use
ClearLocals ==
    /\ target' = ListPath
    /\ existing' = <<>>
    /\ incoming' = <<>>
    /\ result' = NoResult
    /\ sorted_items' = <<>>
    /\ UNCHANGED <<prev_result, merge_calls, loaded, spc>>

\* save_chat_messages raises before its rename took effect
WorkerSaveRaise(w) ==
    /\ cur = w /\ wpc[w] \in {"validated", "writing"}
    /\ ~dry_run /\ ~IsSuspicious(scraper[w])
    /\ ChatFailed(w, "save error")
    /\ ClearLocals
    /\ UNCHANGED <<fs, dry_run, workers, filtered_chats, skip_existing, chats_to_scrape, worker_assignments, ppc,
                   fs0, scraped,
                   worker_humanization, runVars, driverVars, unitVars>>

\* a worker whose scraper takes one more payload between the return of the
\* scrape and the status
RecordStatusAfterCallback(w) ==
    /\ cur = w
    /\ \/ wpc[w] = "saved"
       \/ wpc[w] = "validated" /\ (dry_run \/ IsSuspicious(scraper[w]))
    /\ \E data \in Payloads :
          worker_statuses' = [worker_statuses EXCEPT ![w] =
                                 Append(@, StatusOf(Intercepted(scraper[w], data)))]
    /\ idx' = [idx EXCEPT ![w] = @ + 1]
    /\ wpc' = [wpc EXCEPT ![w] = "next"]
    /\ scraper' = [scraper EXCEPT ![w] = NewScraper(0)]
    /\ worker_humanization' = [worker_humanization EXCEPT ![w] =
           @ + scraper[w].scroll_count + (IF idx[w] + 1 < Len(worker_assignments[w]) THEN 1 ELSE 0)]
    /\ cur' = NoTask
    /\ ClearLocals
    /\ UNCHANGED <<fs, dry_run, workers, filtered_chats, skip_existing, chats_to_scrape, worker_assignments, ppc,
                   fs0, scraped, runVars, driverVars, unitVars>>

\* lines 297-333: the status of the chat, then the delay before the next one
RecordStatus(w) ==
    /\ cur = w
    /\ \/ wpc[w] = "saved"
       \/ wpc[w] = "validated" /\ (dry_run \/ IsSuspicious(scraper[w]))
    /\ worker_statuses' = [worker_statuses EXCEPT ![w] = Append(@, StatusOf(scraper[w]))]
    /\ idx' = [idx EXCEPT ![w] = @ + 1]
    /\ wpc' = [wpc EXCEPT ![w] = "next"]
    /\ scraper' = [scraper EXCEPT ![w] = NewScraper(0)]
    /\ worker_humanization' = [worker_humanization EXCEPT ![w] =
           @ + scraper[w].scroll_count + (IF idx[w] + 1 < Len(worker_assignments[w]) THEN 1 ELSE 0)]
    /\ cur' = NoTask
    /\ ClearLocals
    /\ UNCHANGED <<fs, dry_run, workers, filtered_chats, skip_existing, chats_to_scrape, worker_assignments, ppc,
                   fs0, scraped, runVars, driverVars, unitVars>>

\* an exception leaves the loop of scrape_worker (raised outside the try block of
\* the loop body): the task ends with it
WorkerRaise(w) ==
    /\ ppc = "running" /\ cur = NoTask
    /\ wpc[w] = "next"
    /\ Cardinality({v \in WorkerIds : wpc[v] = "raised"}) < MaxRaised
    /\ wpc' = [wpc EXCEPT ![w] = "raised"]
    /\ UNCHANGED <<fs, storeVars, dry_run, workers, filtered_chats, skip_existing, chats_to_scrape, worker_assignments,
                   ppc, idx, scraper, worker_statuses, cur, fs0, scraped,
                   worker_humanization, runVars, driverVars, unitVars>>

\* what asyncio.gather(..., return_exceptions=True) hands back for worker w
WorkerResult(w) ==
    IF wpc[w] = "raised"
    THEN [exception |-> TRUE, worker_statuses |-> <<>>, total_wait_time |-> 0]
    ELSE [exception |-> FALSE, worker_statuses |-> worker_statuses[w],
          total_wait_time |-> worker_humanization[w]]

\* lines 522-533: the results that are no exception, in worker order
RECURSIVE Aggregate(_, _)
Aggregate(results, w) ==
    IF w \notin DOMAIN results THEN [chat_statuses |-> <<>>, total_wait_time |-> 0]
    ELSE LET rest == Aggregate(results, w + 1)
         IN  IF results[w].exception THEN rest
             ELSE [chat_statuses |-> results[w].worker_statuses \o rest.chat_statuses,
                   total_wait_time |-> results[w].total_wait_time + rest.total_wait_time]

\* the counters when only the success statuses are walked
RECURSIVE CountStatusesSuccessOnly(_, _)
CountStatusesSuccessOnly(md, statuses) ==
    IF statuses = <<>> THEN md
    ELSE LET st == Head(statuses)
         IN  CountStatusesSuccessOnly(
                 IF st.status = "success"
                 THEN [md EXCEPT !.chats_attempted = @ + 1,
                                 !.chats_succeeded = @ + 1,
                                 !.total_messages_scraped = @ + st.message_count]
                 ELSE md,
                 Tail(statuses))

\* lines 540-546: the counters of the metadata
RECURSIVE CountStatuses(_, _)
CountStatuses(md, statuses) ==
    IF statuses = <<>> THEN md
    ELSE LET st == Head(statuses)
             attempted == [md EXCEPT !.chats_attempted = @ + 1]
         IN  CountStatuses(
                 IF st.status = "success"
                 THEN [attempted EXCEPT !.chats_succeeded = @ + 1,
                                        !.total_messages_scraped = @ + st.message_count]
                 ELSE IF st.status = "failed"
                 THEN [attempted EXCEPT !.chats_failed = @ + 1]
                 ELSE attempted,
                 Tail(statuses))

\* the attributes lines 591-595 read from a status
FailedChatAttrs == {"chat_id", "error", "message_count", "scroll_count", "api_calls"}
\* lines 590-596: the line written for one failed chat
FailedChatEntry(st) ==
    [chat_id |-> st.chat_id, reason |-> st.error, message_count |-> st.message_count,
     scroll_iterations |-> st.scroll_count, api_calls |-> st.api_calls]

\* lines 584-598: failed_chats.jsonl; reading an attribute that the status model
\* does not have raises AttributeError before the first line is written
SaveFailedChats(statuses, files) ==
    LET failed_chats == SelectSeq(statuses, LAMBDA st : st.status = "failed")
    IN  IF failed_chats # <<>> /\ ~dry_run
        THEN IF \A i \in DOMAIN failed_chats : FailedChatAttrs \subseteq DOMAIN failed_chats[i]
             THEN [run_dir |-> [files EXCEPT !["failed_chats.jsonl"] =
                       FileOf([i \in DOMAIN failed_chats |-> FailedChatEntry(failed_chats[i])])],
                   error |-> "none"]
             ELSE [run_dir |-> [files EXCEPT !["failed_chats.jsonl"] = FileOf(<<>>)],
                   error |-> "AttributeError"]
        ELSE [run_dir |-> files, error |-> "none"]

\* lines 521-598 for the worker results at hand
AggregateAndReport ==
    LET agg == Aggregate([w \in WorkerIds |-> WorkerResult(w)], 0)
        saved == SaveFailedChats(agg.chat_statuses, run_dir)
    IN  /\ chat_statuses' = agg.chat_statuses
        /\ metadata' = [CountStatuses(metadata, agg.chat_statuses)
                           EXCEPT !.total_wait_time_seconds = agg.total_wait_time]
        /\ run_dir' = saved.run_dir
        /\ rpc' = IF saved.error = "none" THEN "finalize" ELSE "except"
        /\ outcome' = [outcome EXCEPT !.error = saved.error]

\* a gather that lets the first exception of a worker through to its caller
GatherPropagates ==
    /\ ppc = "running" /\ cur = NoTask
    /\ \/ \E w \in WorkerIds : wpc[w] = "raised"
       \/ \A w \in WorkerIds : wpc[w] = "done"
    /\ ppc' = "gathered"
    /\ IF \E w \in WorkerIds : wpc[w] = "raised"
       THEN /\ rpc' = "except"
            /\ outcome' = [outcome EXCEPT !.error = "worker error"]
            /\ UNCHANGED <<chat_statuses, metadata, run_dir>>
       ELSE AggregateAndReport
    /\ UNCHANGED <<fs, storeVars, dry_run, workers, filtered_chats, skip_existing, chats_to_scrape, worker_assignments,
                   wpc, idx, scraper, worker_statuses, cur, fs0, scraped,
                   worker_humanization, driverVars, unitVars>>

\* lines 519-598: asyncio.gather returned, every worker task is through; the
\* results are aggregated into the run metadata and the reports are written
Gather ==
    /\ ppc = "running" /\ cur = NoTask
    /\ \A w \in WorkerIds : wpc[w] \in {"done", "raised"}
    /\ ppc' = "gathered"
    /\ AggregateAndReport
    /\ UNCHANGED <<fs, storeVars, dry_run, workers, filtered_chats, skip_existing, chats_to_scrape, worker_assignments,
                   wpc, idx, scraper, worker_statuses, cur, fs0, scraped,
                   worker_humanization, driverVars, unitVars>>

\* lines 440-442: the list store is empty
LoadRaise ==
    /\ ppc = "select" /\ rpc = "try"
    /\ filtered_chats = <<>>
    /\ rpc' = "except"
    /\ outcome' = [outcome EXCEPT !.error = "ValueError"]
    /\ UNCHANGED <<fs, storeVars, poolVars, chat_statuses, metadata, run_dir, driverVars, unitVars>>

\* lines 600-613: finalize and return the run directory
Finalize ==
    /\ kind = "off" /\ rpc = "finalize"
    /\ LET status == IF dry_run THEN "dry_run_completed" ELSE "completed"
       IN  /\ metadata' = [metadata EXCEPT !.status = status]
           /\ run_dir' = finalize(metadata, run_dir, status)
    /\ rpc' = "finished"
    /\ outcome' = [how |-> "returned", error |-> "none"]
    /\ UNCHANGED <<fs, storeVars, poolVars, chat_statuses, driverVars, unitVars>>

\* lines 615-618: finalize as failed and raise again
RunExcept ==
    /\ kind = "off" /\ rpc = "except"
    /\ metadata' = [metadata EXCEPT !.status = "failed"]
    /\ run_dir' = finalize(metadata, run_dir, "failed")
    /\ rpc' = "finished"
    /\ outcome' = [outcome EXCEPT !.how = "raised"]
    /\ UNCHANGED <<fs, storeVars, poolVars, chat_statuses, driverVars, unitVars>>

PoolNext ==
    \/ Partition
    \/ \E w \in WorkerIds : StartChat(w)
    \/ \E w \in WorkerIds : WorkerReturn(w)
    \/ \E w \in WorkerIds, data \in Payloads : InterceptResponse(w, data)
    \/ \E w \in WorkerIds : InterceptError(w)
    \/ \E w \in WorkerIds : ScrollCycle(w)
    \/ \E w \in WorkerIds : ScrapeReturn(w)
    \/ \E w \in WorkerIds : ScrapeRaise(w)
    \/ \E w \in WorkerIds : WorkerSaveBegin(w)
    \/ \E w \in WorkerIds : WorkerSaveWriteLine(w)
    \/ \E w \in WorkerIds : WorkerSaveRename(w)
    \/ \E w \in WorkerIds : WorkerSaveRaise(w)
    \/ \E w \in WorkerIds : RecordStatus(w)
    \/ \E w \in WorkerIds : WorkerRaise(w)
    \/ Gather
    \/ LoadRaise
    \/ Finalize
    \/ RunExcept

SpecPool == PoolInit /\ [][PoolNext]_vars

\* ------------------------------------------------------------ store claims
LastWithId(l, k) == l[CHOOSE i \in DOMAIN l : l[i].id = k /\ \A j \in DOMAIN l : l[j].id = k => j <= i]
PostSaveFile == FileOf(DumpAll(SortedValues(target, result.merged)))

\* C1: in both stores the target file changes only in the rename step of save,
\* and then to the complete sorted dump of the saved dict; a save that raises
\* before the rename leaves the target file as it was. So at every point, crash
\* points inside save included, the target holds the complete pre-save or the
\* complete post-save record set.
C1_AtomicSave ==
    [][ /\ (fs'[target] # fs[target]) =>
              (spc = "writing" /\ spc' = "saved" /\ fs'[target] = PostSaveFile)
        /\ (spc' = "save_failed") => (fs'[target] = fs[target]) ]_vars

\* a save of a changed dict that raised after writing some but not all lines,
\* over an existing target file
C1_Witness ==
    /\ spc = "save_failed"
    /\ fs[target].exists
    /\ fs[with_suffix_tmp(target)].exists
    /\ Len(fs[with_suffix_tmp(target)].lines) > 0
    /\ Len(fs[with_suffix_tmp(target)].lines) < Len(sorted_items)
    /\ fs[target] # PostSaveFile
    /\ load(target, fs) = existing

\* C2: merging the same list into the dict a merge produced gives that dict
\* again and reports new_count = 0.
C2_MergeIdempotent ==
    merge_calls = 2 =>
        /\ AsMap(result.merged) = AsMap(prev_result.merged)
        /\ result.new_count = 0

\* a second merge after a first one that both inserted and overwrote
C2_Witness ==
    /\ merge_calls = 2
    /\ prev_result.new_count > 0
    /\ prev_result.updated_count > 0

\* C3: merge_and_update inserts the items with an absent id and overwrites the
\* record of those with a present id: the counts add up to the length of the
\* incoming list, new_count counts the distinct absent ids, the merged keys are
\* the union, every incoming id maps to its last incoming record; and the test's
\* scenario gives (2, 3) and 7 entries.
C3_MergeCounts ==
    merge_calls >= 1 =>
        /\ result.new_count + result.updated_count = Len(incoming)
        /\ result.new_count = Cardinality(Keys(incoming) \ Keys(existing))
        /\ DistinctIds(result.merged)
        /\ Keys(result.merged) = Keys(existing) \cup Keys(incoming)
        /\ \A k \in Keys(incoming) : Get(result.merged, k) = LastWithId(incoming, k)
        /\ (existing = ScenarioStored /\ incoming = ScenarioRun2) =>
              /\ result.new_count = 2
              /\ result.updated_count = 3
              /\ Len(result.merged) = 7

\* the scenario of test_central_database after its second merge
C3_Witness ==
    /\ merge_calls = 1
    /\ existing = ScenarioStored
    /\ incoming = ScenarioRun2
    /\ result.new_count = 2
    /\ result.updated_count = 3
    /\ Len(result.merged) = 7
    /\ Get(result.merged, 1).updated_at = 2

ZeroYield(sc) == Len(sc.all_messages) = 0 /\ sc.scroll_count >= 1
HadInterceptError(sc) == sc.api_intercept_errors >= 1
\* the statuses recorded for chat c, over all workers
StatusesOf(c) ==
    {<<w, i>> \in {<<v, j>> \in WorkerIds \X (1..MaxChats) : ppc # "select" /\ j <= Len(worker_statuses[v])} :
        worker_statuses[w][i].chat_id = c}
StatusAt(wi) == worker_statuses[wi[1]][wi[2]]
\* the mapping a merge of list l into dict pre must give
MergedMap(pre, l) ==
    [k \in Keys(pre) \cup Keys(l) |-> IF k \in Keys(l) THEN LastWithId(l, k) ELSE Get(pre, k)]
\* chat c's file holds its pre-run content merged with what its scrape returned
Persisted(c) ==
    LET p == get_chat_file_path(c)
    IN  /\ fs[p].exists
        /\ AsMap(load(p, fs)) = MergedMap(load(p, fs0), scraped[c].sc.all_messages)
ReasonGiven(st) == st.error # NoError

\* C5 as stated: a scrape that returned gets status failed with a reason exactly
\* when it yielded nothing after a scroll or had an intercept error, and status
\* success otherwise.
C5_AsStated ==
    \A c \in ChatIds : \A wi \in StatusesOf(c) :
        scraped[c].returned =>
            IF ZeroYield(scraped[c].sc) \/ HadInterceptError(scraped[c].sc)
            THEN StatusAt(wi).status = "failed" /\ ReasonGiven(StatusAt(wi))
            ELSE StatusAt(wi).status = "success"

\* C5 (amended): as stated, except that a clean result whose load, merge or save
\* raises in a non-dry run gets status failed with the exception's text; a clean
\* result that is persisted, and every clean result of a dry run, gets success.
C5_Validation ==
    \A c \in ChatIds : \A wi \in StatusesOf(c) :
        scraped[c].returned =>
            IF ZeroYield(scraped[c].sc) \/ HadInterceptError(scraped[c].sc)
            THEN /\ StatusAt(wi).status = "failed"
                 /\ ReasonGiven(StatusAt(wi))
                 /\ StatusAt(wi).error[1] \in {"0 messages after scrolls", "API intercept errors"}
                 /\ StatusAt(wi).message_count = Len(scraped[c].sc.all_messages)
            ELSE \/ StatusAt(wi).status = "success" /\ ~ReasonGiven(StatusAt(wi))
                 \/ /\ ~dry_run
                    /\ StatusAt(wi) = FailedStatus(c, "save error")
                    /\ fs[get_chat_file_path(c)] = fs0[get_chat_file_path(c)]

\* a scrape with an intercept error that collected messages, recorded as failed
C5_Witness ==
    \E c \in ChatIds : \E wi \in StatusesOf(c) :
        /\ scraped[c].returned
        /\ scraped[c].sc.api_intercept_errors >= 1
        /\ Len(scraped[c].sc.all_messages) >= 1
        /\ StatusAt(wi).status = "failed"
        /\ StatusAt(wi).message_count >= 1

\* C6: the file of a chat whose scrape was classified suspicious is as it was
\* before the run (not created, not rewritten), and once the worker is through
\* with the chat exactly one status, a failed one, is recorded for it.
C6_SuspiciousNotMerged ==
    \A c \in ChatIds :
        (scraped[c].returned /\ (ZeroYield(scraped[c].sc) \/ HadInterceptError(scraped[c].sc))) =>
            /\ fs[get_chat_file_path(c)] = fs0[get_chat_file_path(c)]
            /\ fs[with_suffix_tmp(get_chat_file_path(c))] = fs0[with_suffix_tmp(get_chat_file_path(c))]
            /\ Cardinality(StatusesOf(c)) <= 1
            /\ \A wi \in StatusesOf(c) : StatusAt(wi).status = "failed"
            /\ (\A w \in WorkerIds : wpc[w] \in {"next", "done", "raised"} \/ scraper[w].chat_id # c) =>
                  Cardinality(StatusesOf(c)) = 1

\* a non-dry run with a suspicious scrape that collected messages, for a chat
\* with a stored file, after its status was recorded
C6_Witness ==
    \E c \in ChatIds :
        /\ ~dry_run
        /\ scraped[c].returned
        /\ HadInterceptError(scraped[c].sc)
        /\ Len(scraped[c].sc.all_messages) >= 1
        /\ fs0[get_chat_file_path(c)].exists
        /\ Cardinality(StatusesOf(c)) = 1

\* C7: after the assignment every selected chat is in the list of exactly one
\* worker, at exactly one position, and the lists hold nothing else.
C7_PartitionComplete ==
    ppc # "select" =>
        /\ DOMAIN worker_assignments = WorkerIds
        /\ UNION {Range(worker_assignments[w]) : w \in WorkerIds} = Range(chats_to_scrape)
        /\ \A v, w \in WorkerIds :
              v # w => Range(worker_assignments[v]) \cap Range(worker_assignments[w]) = {}
        /\ \A i \in DOMAIN chats_to_scrape :
              Cardinality({<<w, j>> \in WorkerIds \X (1..MaxChats) :
                              /\ j <= Len(worker_assignments[w])
                              /\ worker_assignments[w][j] = chats_to_scrape[i]}) = 1

\* two workers that both got chats
C7_Witness ==
    /\ ppc = "running"
    /\ workers = 2
    /\ \A w \in WorkerIds : Len(worker_assignments[w]) >= 1

\* the paths a worker writes over the run: file and temp file of its chats
WritePaths(w) ==
    UNION {{get_chat_file_path(c), with_suffix_tmp(get_chat_file_path(c))} :
              c \in Range(worker_assignments[w])}
HasSuccess(c) == \E wi \in StatusesOf(c) : StatusAt(wi).status = "success"

\* the chats worker w has started on
Started(w) ==
    {worker_assignments[w][i] : i \in 1..idx[w]} \cup
    (IF wpc[w] \in {"next", "done", "raised"} THEN {} ELSE {scraper[w].chat_id})

C9_SavedBeforeNext ==
    ppc # "select" =>
        \A w \in WorkerIds :
            /\ Len(worker_statuses[w]) = idx[w]
            /\ idx[w] <= Len(worker_assignments[w])
            /\ \A i \in 1..idx[w] : worker_statuses[w][i].chat_id = worker_assignments[w][i]
            /\ wpc[w] \notin {"next", "done", "raised"} => scraper[w].chat_id = worker_assignments[w][idx[w] + 1]
            /\ ~dry_run =>
                  \A i \in 1..idx[w] :
                      worker_statuses[w][i].status = "success" =>
                          Persisted(worker_statuses[w][i].chat_id)

\* a worker scraping its second chat after it committed messages of its first
C9_Witness ==
    /\ ppc = "running"
    /\ ~dry_run
    /\ \E w \in WorkerIds :
          /\ idx[w] = 1
          /\ wpc[w] = "scraping"
          /\ worker_statuses[w][1].status = "success"
          /\ worker_statuses[w][1].message_count >= 1

InChat(w) == wpc[w] \in {"scraping", "validated", "writing", "saved"}

\* C10: a worker leaves a chat only by recording one status for it and going on
\* to the next position of its list; when scrape or save raised, that status is
\* failed and carries the error; a worker that finished has one status per
\* assigned chat, in assignment order.
C10_ChatBoundary ==
    [][ppc = "running" =>
          \A w \in WorkerIds :
              /\ (wpc'[w] = "done") =>
                    /\ Len(worker_statuses'[w]) = Len(worker_assignments[w])
                    /\ \A i \in DOMAIN worker_statuses'[w] :
                          worker_statuses'[w][i].chat_id = worker_assignments[w][i]
              /\ (InChat(w) /\ ~InChat(w)') =>
                    /\ wpc'[w] = "next"
                    /\ idx'[w] = idx[w] + 1
                    /\ Len(worker_statuses'[w]) = Len(worker_statuses[w]) + 1
                    /\ SubSeq(worker_statuses'[w], 1, Len(worker_statuses[w])) = worker_statuses[w]
                    /\ worker_statuses'[w][idx'[w]].chat_id = scraper[w].chat_id
                    /\ wpc[w] = "scraping" =>
                          worker_statuses'[w][idx'[w]] = FailedStatus(scraper[w].chat_id, "scrape error")
                    /\ (wpc[w] = "writing" \/
                        (wpc[w] = "validated" /\ ~dry_run /\ ~IsSuspicious(scraper[w]))) =>
                          worker_statuses'[w][idx'[w]] = FailedStatus(scraper[w].chat_id, "save error")]_vars

\* a finished worker whose first chat failed with an exception and whose second
\* chat was scraped all the same
C10_Witness ==
    /\ ppc # "select"
    /\ \E w \in WorkerIds :
          /\ wpc[w] = "done"
          /\ Len(worker_statuses[w]) = 2
          /\ worker_statuses[w][1].error[1] \in {"scrape error", "save error"}
          /\ worker_statuses[w][2].status = "success"

\* -------------------------------------------------------------- run claims
Raised == {w \in WorkerIds : wpc[w] = "raised"}
\* the statuses of the workers that returned, before worker w, in worker order
RECURSIVE StatusesBefore(_)
StatusesBefore(w) ==
    IF w = 0 THEN 0
    ELSE StatusesBefore(w - 1) + (IF w - 1 \in Raised THEN 0 ELSE Len(worker_statuses[w - 1]))
RECURSIVE WaitBefore(_)
WaitBefore(w) ==
    IF w = 0 THEN 0
    ELSE WaitBefore(w - 1) + (IF w - 1 \in Raised THEN 0 ELSE worker_humanization[w - 1])
SummaryStatus == run_dir["run_summary.json"].lines[1].status

C12_FailedChatsSaved ==
    LET failed == SelectSeq(chat_statuses, LAMBDA st : st.status = "failed")
        file == run_dir["failed_chats.jsonl"]
    IN  (rpc = "finished" /\ ~dry_run /\ failed # <<>>) =>
            /\ file.exists
            /\ Len(file.lines) = Len(failed)
            /\ \A i \in DOMAIN failed :
                  /\ file.lines[i].chat_id = failed[i].chat_id
                  /\ file.lines[i].reason = failed[i].error
            /\ outcome.how = "returned"
            /\ SummaryStatus = "completed"

\* ------------------------------------------------------ pagination driver
\* ChatListScraper.__init__
NewListScraper ==
    [all_chats |-> <<>>, api_call_count |-> 0, scroll_count |-> 0, has_more_chats |-> TRUE]

\* {next, results} payloads of the chat list endpoint; next is 0 for null
\* a page holds distinct chats, the most recently updated first
ListPages ==
    {l \in SeqsUpTo(ChatItems, MaxPage) :
        \A i, j \in DOMAIN l : i < j => l[i].id # l[j].id /\ l[i].updated_at >= l[j].updated_at}
ListPayloads == [next : {0, 1}, results : ListPages]
\* date_cutoff: stamps below it are older than the 30 day window
Cutoff == 2
\* updated_at < self.date_cutoff for one item: datetime.fromisoformat gives an
\* aware datetime for a stamp with a zone ("...Z"), and comparing it with the
\* naive datetime.now() - timedelta(days=30) raises TypeError
CompareWithCutoff(updated_at, zone) ==
    IF zone = "Z" THEN "TypeError"
    ELSE IF updated_at < Cutoff THEN "older" ELSE "newer"
\* lines 96-111: some item of the page compares as older than the cutoff; an
\* item whose comparison raises is passed over
ReachedCutoff(cfg, data) ==
    /\ cfg.date_filter = "30days"
    /\ data.results # <<>>
    /\ \E i \in DOMAIN data.results :
          CompareWithCutoff(data.results[i].updated_at, cfg.zone) = "older"

\* tracker.all_chats after add_chats_from_response
AddChats(all_chats, results) ==
    add_chats_from_response(
        [cls |-> "ChatListTracker", all |-> all_chats, ids |-> Keys(all_chats),
         duplicate_count |-> 0], [results |-> results]).tracker.all

\* ChatListScraper.intercept_api_response, body decoded
ListIntercepted(sc, cfg, data) ==
    [sc EXCEPT !.api_call_count = @ + 1,
               !.has_more_chats = IF \/ data.next = 0
                                     \/ data.results = <<>>
                                     \/ ReachedCutoff(cfg, data)
                                  THEN FALSE ELSE @,
               !.all_chats = AddChats(@, data.results)]

\* the fields the two scraper classes name differently
HasMore == IF kind = "list" THEN driver.has_more_chats ELSE driver.has_more_messages
Tracked == IF kind = "list" THEN driver.all_chats ELSE driver.all_messages
DriverPayloads == IF kind = "list" THEN ListPayloads ELSE Payloads

\* ChatListScrapingRunMetadata as RunLogger creates it
ChatListScrapingRunMetadata ==
    [status |-> "in_progress", total_items_failed |-> 0, scroll_iterations |-> 0]

NoHistory ==
    [signal |-> FALSE, after_signal |-> FALSE, empty |-> FALSE, after_empty |-> FALSE,
     first |-> "none", first_at |-> 0, old_page |-> FALSE, after_old |-> FALSE,
     newer |-> {}, before |-> 0, idle |-> FALSE, idle_went_on |-> FALSE, both |-> FALSE,
     capped |-> FALSE, late |-> FALSE, load_error |-> FALSE]

\* no store session is open
StoreIdle ==
    /\ target = ListPath
    /\ existing = <<>>
    /\ incoming = <<>>
    /\ result = NoResult
    /\ prev_result = NoResult
    /\ merge_calls = 0
    /\ sorted_items = <<>>
    /\ loaded = <<>>
    /\ spc = "off"

\* the list store as the runs before left it
StoredList == <<ChatItemOf(1, 1)>>

\* scrape_chat_list up to scraper.scrape(page), or one ChatMessageScraper(1).scrape(page)
DriverInit ==
    /\ kind \in {"list", "messages"}
    /\ dpc = "loading"
    /\ dlog = {}
    /\ hist = NoHistory
    /\ StoreIdle
    /\ PoolIdle
    /\ UnitIdle
    /\ chat_statuses = <<>>
    /\ IF kind = "list"
       THEN /\ config \in [dry_run : BOOLEAN, dry_run_limit : {MaxDryRun},
                           date_filter : {"all", "30days"}, zone : {"Z", "naive"},
                           max_scrolls : {MaxCycles}]
            /\ driver = NewListScraper
            /\ fs = [q \in Paths |-> IF q = ListPath THEN FileOf(DumpAll(StoredList))
                                     ELSE NoFile]
            /\ metadata = ChatListScrapingRunMetadata
            /\ run_dir = [f \in RunFiles |-> NoFile]
            /\ rpc = "try"
            /\ outcome = [how |-> "running", error |-> "none"]
       ELSE /\ config = [dry_run |-> FALSE, dry_run_limit |-> MaxDryRun, date_filter |-> "all",
                         zone |-> "Z", max_scrolls |-> MaxCycles]
            /\ driver = NewScraper(1)
            /\ fs = [q \in Paths |-> NoFile]
            /\ RunIdle

\* page.goto and the wait for the initial load are through: scroll_until_complete
DriverLoaded ==
    /\ dpc = "loading"
    /\ dpc' = "check"
    /\ UNCHANGED <<fs, storeVars, poolVars, unitVars, runVars, kind, driver, config, dlog, hist>>

\* an item of a list page that is older than the 30 day window
OlderItems(data) == {i \in DOMAIN data.results : data.results[i].updated_at < Cutoff}

\* intercept_api_response of the driver's scraper for a response that decodes
DriverIntercept(data) ==
    /\ dpc \in {"loading", "cycle"}
    /\ driver.api_call_count < MaxDriverCalls
    /\ driver' = IF kind = "list" THEN ListIntercepted(driver, config, data)
                 ELSE Intercepted(driver, data)
    /\ LET filtered == kind = "list" /\ config.date_filter = "30days" /\ OlderItems(data) # {}
       IN  hist' = [hist EXCEPT
               !.signal = @ \/ data.next = 0 \/ (kind = "list" /\ data.results = <<>>),
               !.empty = @ \/ data.results = <<>>,
               !.first = IF @ # "none" THEN @
                         ELSE IF data.next = 0 /\ data.results = <<>> THEN "null, empty"
                         ELSE "other",
               !.first_at = IF hist.first = "none" THEN driver.scroll_count ELSE @,
               !.late = @ \/ (hist.signal /\ data.next # 0 /\ data.results # <<>>),
               !.old_page = @ \/ filtered,
               !.newer = IF filtered
                         THEN @ \cup {data.results[i].id : i \in DOMAIN data.results \ OlderItems(data)}
                         ELSE @]
    /\ UNCHANGED <<fs, storeVars, poolVars, unitVars, runVars, kind, config, dpc, dlog>>

\* intercept_api_response when response.json() raises: the message scraper counts
\* an intercept error, the list scraper logs an error of the run
DriverInterceptError ==
    /\ dpc \in {"loading", "cycle"}
    /\ IF kind = "list"
       THEN /\ metadata.total_items_failed < MaxErrors
            /\ metadata' = [metadata EXCEPT !.total_items_failed = @ + 1]
            /\ UNCHANGED driver
       ELSE /\ driver.api_intercept_errors < MaxErrors
            /\ driver' = [driver EXCEPT !.api_intercept_errors = @ + 1]
            /\ UNCHANGED metadata
    /\ UNCHANGED <<fs, storeVars, poolVars, unitVars, chat_statuses, run_dir, rpc, outcome,
                   kind, config, dpc, dlog, hist>>

\* the dry-run limit of the list scraper is reached (line 174)
DryRunLimitReached ==
    kind = "list" /\ config.dry_run /\ Len(driver.all_chats) >= config.dry_run_limit

\* the loop body from scroll_count += 1 to its first await
StartCycle ==
    /\ driver' = [driver EXCEPT !.scroll_count = @ + 1]
    /\ dpc' = "cycle"
    /\ hist' = [hist EXCEPT !.before = Len(Tracked),
                            !.after_signal = @ \/ hist.signal,
                            !.after_empty = @ \/ hist.empty,
                            !.after_old = @ \/ hist.old_page,
                            !.idle_went_on = @ \/ hist.idle]
    /\ UNCHANGED <<dlog, runVars>>

\* the loop is left with scroll_num as it is: the warning of the line after the
\* loop, and scrape returns the tracked items
ExitLoop(logs, scroll_num) ==
    /\ dpc' = "returned"
    /\ dlog' = dlog \cup logs \cup
                  (IF scroll_num >= config.max_scrolls - 1 THEN {"max scroll warning"} ELSE {})
    /\ hist' = [hist EXCEPT !.capped = driver.scroll_count = config.max_scrolls,
                            !.both = /\ DryRunLimitReached /\ ~HasMore
                                     /\ driver.scroll_count < config.max_scrolls]
    /\ IF kind = "list"
       THEN /\ rpc' = "scraped"
            /\ metadata' = [metadata EXCEPT !.scroll_iterations = driver.scroll_count]
            /\ UNCHANGED <<chat_statuses, run_dir, outcome>>
       ELSE UNCHANGED runVars
    /\ UNCHANGED driver

\* a loop head without the range of the for loop
CycleCheckNoCap ==
    /\ dpc = "check"
    /\ IF DryRunLimitReached THEN ExitLoop({"dry run limit"}, driver.scroll_count)
       ELSE IF ~HasMore THEN ExitLoop({"all loaded"}, driver.scroll_count)
       ELSE StartCycle
    /\ UNCHANGED <<fs, storeVars, poolVars, unitVars, kind, config>>

\* a loop head that gives up after a cycle without new items
CycleCheckStopsWhenIdle ==
    /\ dpc = "check"
    /\ IF driver.scroll_count = config.max_scrolls THEN ExitLoop({}, config.max_scrolls - 1)
       ELSE IF DryRunLimitReached THEN ExitLoop({"dry run limit"}, driver.scroll_count)
       ELSE IF ~HasMore \/ hist.idle THEN ExitLoop({"all loaded"}, driver.scroll_count)
       ELSE StartCycle
    /\ UNCHANGED <<fs, storeVars, poolVars, unitVars, kind, config>>

\* the head of the loop of scroll_until_complete: the range is used up, or the
\* dry-run limit is reached (list), or the scraper has no more to load, or the
\* next cycle starts
CycleCheck ==
    /\ dpc = "check"
    /\ IF driver.scroll_count = config.max_scrolls THEN ExitLoop({}, config.max_scrolls - 1)
       ELSE IF DryRunLimitReached THEN ExitLoop({"dry run limit"}, driver.scroll_count)
       ELSE IF ~HasMore THEN ExitLoop({"all loaded"}, driver.scroll_count)
       ELSE StartCycle
    /\ UNCHANGED <<fs, storeVars, poolVars, unitVars, kind, config>>

\* the awaits of a cycle are through (a new call was seen or the wait timed out)
CycleEnd ==
    /\ dpc = "cycle"
    /\ dpc' = "check"
    /\ hist' = [hist EXCEPT !.idle = Len(Tracked) = hist.before]
    /\ UNCHANGED <<fs, storeVars, poolVars, unitVars, runVars, kind, driver, config, dlog>>

\* a page operation of scrape raises (navigation timeout, page closed)
DriverRaise ==
    /\ dpc \in {"loading", "cycle"}
    /\ dpc' = "raised"
    /\ IF kind = "list"
       THEN /\ rpc' = "except"
            /\ outcome' = [outcome EXCEPT !.error = "scrape error"]
            /\ metadata' = [metadata EXCEPT !.total_items_failed = @ + 1]
            /\ UNCHANGED <<chat_statuses, run_dir>>
       ELSE UNCHANGED runVars
    /\ UNCHANGED <<fs, storeVars, poolVars, unitVars, kind, driver, config, dlog, hist>>

\* scrape_chat_list lines 370-430: reports, and outside a dry run the update of
\* the list store: load (which returns what it could read when reading raises),
\* merge, and save, which raises when it fails
ListStoreUpdate ==
    /\ kind = "list" /\ rpc = "scraped"
    /\ IF config.dry_run
       THEN /\ rpc' = "finalize"
            /\ UNCHANGED <<fs, outcome, hist>>
       ELSE \E n \in 0..Len(fs[ListPath].lines), saved \in BOOLEAN :
                LET read_error == n < Len(fs[ListPath].lines)
                    existing_chats == IF read_error THEN load_interrupted(ListPath, fs, n)
                                      ELSE load(ListPath, fs)
                    merge == merge_and_update(existing_chats, driver.all_chats)
                IN  /\ hist' = [hist EXCEPT !.load_error = read_error]
                    /\ fs' = IF saved
                             THEN [fs EXCEPT ![ListPath] =
                                      FileOf(DumpAll(SortedValues(ListPath, merge.merged)))]
                             ELSE fs
                    /\ rpc' = IF saved THEN "finalize" ELSE "except"
                    /\ outcome' = IF saved THEN outcome
                                  ELSE [outcome EXCEPT !.error = "save error"]
    /\ UNCHANGED <<storeVars, poolVars, unitVars, chat_statuses, metadata, run_dir,
                   kind, driver, config, dpc, dlog>>

\* scrape_chat_list lines 432-443: finalize, report, return the run directory
ListFinalize ==
    /\ kind = "list" /\ rpc = "finalize"
    /\ LET status == IF config.dry_run THEN "dry_run_completed" ELSE "completed"
       IN  /\ metadata' = [metadata EXCEPT !.status = status]
           /\ run_dir' = finalize(metadata, run_dir, status)
    /\ dlog' = dlog \cup {IF config.dry_run THEN "stopped at limit" ELSE "results saved"}
    /\ rpc' = "finished"
    /\ outcome' = [how |-> "returned", error |-> "none"]
    /\ UNCHANGED <<fs, storeVars, poolVars, unitVars, chat_statuses, kind, driver, config, dpc, hist>>

\* an except branch that raises again without the summary
ListExceptNoSummary ==
    /\ kind = "list" /\ rpc = "except"
    /\ metadata' = [metadata EXCEPT !.status = "failed"]
    /\ rpc' = "finished"
    /\ outcome' = [outcome EXCEPT !.how = "raised"]
    /\ UNCHANGED <<fs, storeVars, poolVars, chat_statuses, run_dir, driverVars, unitVars>>

\* scrape_chat_list lines 445-448: finalize as failed and raise again
ListExcept ==
    /\ kind = "list" /\ rpc = "except"
    /\ metadata' = [metadata EXCEPT !.status = "failed"]
    /\ run_dir' = finalize(metadata, run_dir, "failed")
    /\ rpc' = "finished"
    /\ outcome' = [outcome EXCEPT !.how = "raised"]
    /\ UNCHANGED <<fs, storeVars, poolVars, chat_statuses, driverVars, unitVars>>

DriverNext ==
    \/ DriverLoaded
    \/ \E data \in DriverPayloads : DriverIntercept(data)
    \/ DriverInterceptError
    \/ CycleCheck
    \/ CycleEnd
    \/ DriverRaise
    \/ ListStoreUpdate
    \/ ListFinalize
    \/ ListExcept

SpecDriver == DriverInit /\ [][DriverNext]_vars

\* a run of either kind: scrape_chat_messages with its workers, or scrape_chat_list
RunInit == PoolInit \/ DriverInit
RunNext == PoolNext \/ DriverNext
SpecRun == RunInit /\ [][RunNext]_vars

DriverStep == DriverLoaded \/ CycleCheck \/ CycleEnd

\* C14: a driver run ends within max_scrolls cycles even when no payload ever
\* says that the items are used up: every cycle counts one scroll, the count
\* never passes max_scrolls, the driver can always take its next step, and at the
\* cap it returns what it tracked with a warning, raising nothing; a capped
\* message scrape with messages and no intercept error validates clean.
C14_BoundedScrolls ==
    [][ /\ driver'.scroll_count <= config.max_scrolls
        /\ driver'.scroll_count >= driver.scroll_count
        /\ (dpc = "check" /\ dpc' = "cycle") => driver'.scroll_count = driver.scroll_count + 1
        /\ (dpc = "cycle" /\ dpc' # "cycle") => dpc' \in {"check", "raised"}
        /\ dpc \in {"loading", "check", "cycle"} => ENABLED DriverStep
        /\ (dpc = "check" /\ dpc' # "check" /\ driver.scroll_count = config.max_scrolls) =>
              /\ dpc' = "returned"
              /\ "max scroll warning" \in dlog'
              /\ Tracked' = Tracked
              /\ outcome' = outcome
              /\ kind = "list" => rpc' = "scraped"
              /\ (kind = "messages" /\ driver.all_messages # <<>>
                                    /\ driver.api_intercept_errors = 0) => ~IsSuspicious(driver')
      ]_vars

\* a driver that came back from the cap with more to load and no signal seen
C14_Witness ==
    /\ dpc = "returned" /\ hist.capped
    /\ ~hist.signal /\ HasMore
    /\ driver.scroll_count = config.max_scrolls
    /\ "max scroll warning" \in dlog

C16_EmptyPageExhausts ==
    (kind = "messages" /\ hist.empty) => ~HasMore /\ ~hist.after_empty

\* C17: a cycle that brought no new item ends nothing by itself: its end changes
\* neither the scraper nor the log nor the run, and the loop head after it starts
\* the next cycle while there is more to load, no dry-run limit and no cap.
C17_IdleCycleGoesOn ==
    [][ /\ (dpc = "cycle" /\ dpc' = "check") =>
              /\ driver' = driver /\ dlog' = dlog /\ runVars' = runVars
        /\ (/\ dpc = "check" /\ dpc' # "check" /\ hist.idle
            /\ HasMore /\ ~DryRunLimitReached
            /\ driver.scroll_count < config.max_scrolls) =>
              /\ dpc' = "cycle"
              /\ driver'.scroll_count = driver.scroll_count + 1
      ]_vars

\* a cycle under way after a cycle in which nothing at all was intercepted
C17_Witness ==
    /\ hist.idle_went_on /\ dpc = "cycle"
    /\ driver.api_call_count = 0

\* C18: when the first payload of a message scrape has next null and no results,
\* the driver has no more to load, scrolls no further than the cycle the payload
\* arrived in (at most one when it came with the page load or the first cycle),
\* tracks no message from it, and leaves the loop as "all loaded".
C18_EmptyChat ==
    (kind = "messages" /\ hist.first = "null, empty") =>
        /\ ~HasMore
        /\ ~hist.after_signal
        /\ driver.scroll_count = hist.first_at
        /\ hist.first_at <= 1 => driver.scroll_count <= 1
        /\ driver.api_call_count = 1 => driver.all_messages = <<>>
        /\ (dpc = "returned" /\ driver.scroll_count < config.max_scrolls) =>
              "all loaded" \in dlog

\* a chat without messages: one payload, no cycle at all, nothing tracked
C18_Witness ==
    /\ kind = "messages" /\ hist.first = "null, empty"
    /\ dpc = "returned"
    /\ driver.api_call_count = 1 /\ driver.scroll_count = 0
    /\ driver.all_messages = <<>>

\* C19: with the 30 day filter on, a list page holding an item older than the
\* cutoff ends the scrape: no more to load, no cycle after it, and the newer
\* items of that page are tracked.
C19_CutoffExhausts ==
    (kind = "list" /\ hist.old_page) =>
        /\ ~HasMore
        /\ ~hist.after_old
        /\ hist.newer \subseteq Keys(driver.all_chats)

\* C20: a dry run whose limit is reached at the loop head where the list is also
\* used up is reported as a list that was loaded whole, not as one cut at the limit.
C20_ExhaustionPrecedence ==
    (kind = "list" /\ hist.both) =>
        /\ "all loaded" \in dlog
        /\ "dry run limit" \notin dlog
        /\ "stopped at limit" \notin dlog

\* ---------------------------------------------------------- tracker alone
\* the rest of the model is not running
OthersIdle ==
    /\ fs = [q \in Paths |-> NoFile]
    /\ StoreIdle
    /\ PoolIdle
    /\ RunIdle
    /\ DriverIdle

\* what a results list can hold for a tracker: two items, item 1 again as it
\* reads after a change, a repeat of any of them, and an object that fails the
\* shape validation (it lacks the timestamps)
Malformed == [id |-> 2]
Offered(cls) ==
    IF cls = "ChatListTracker"
    THEN {ChatItemOf(1, 1), ChatItemOf(1, 2), ChatItemOf(2, 1), Malformed}
    ELSE {MessageItemOf(1, 1), MessageItemOf(1, 2), MessageItemOf(2, 1), Malformed}
Batches(cls) == [results : SeqsUpTo(Offered(cls), MaxBatch)]

TrackerInit ==
    /\ tracker \in {NewTracker("ChatListTracker"), NewTracker("MessageTracker")}
    /\ tracker0 = tracker
    /\ response_data = [results |-> <<>>]
    /\ new_count = 0
    /\ batches = 0
    /\ page = <<>> /\ page0 = <<>> /\ response = NoResponse /\ dispatched = 0
    /\ analyzer_chats = <<>> /\ report = NoReport
    /\ OthersIdle

\* new_count = tracker.add_chats_from_response(data) /
\* new_count = tracker.add_messages_from_response(data)
AddBatch(data) ==
    /\ batches < MaxBatches
    /\ LET r == IF tracker.cls = "ChatListTracker" THEN add_chats_from_response(tracker, data)
                ELSE add_messages_from_response(tracker, data)
       IN  /\ tracker' = r.tracker
           /\ new_count' = r.new_count
    /\ tracker0' = tracker
    /\ response_data' = data
    /\ batches' = batches + 1
    /\ UNCHANGED <<fs, storeVars, poolVars, runVars, driverVars, page, page0, response,
                   dispatched, analyzer_chats, report>>

\* tracker.add_chat(chat)
AddChat(chat) ==
    /\ batches < MaxBatches
    /\ tracker.cls = "ChatListTracker"
    /\ tracker' = add_chat(tracker, chat).tracker
    /\ new_count' = add_chat(tracker, chat).new_count
    /\ tracker0' = tracker
    /\ response_data' = [results |-> <<chat>>]
    /\ batches' = batches + 1
    /\ UNCHANGED <<fs, storeVars, poolVars, runVars, driverVars, page, page0, response,
                   dispatched, analyzer_chats, report>>

TrackerNext ==
    \/ \E data \in Batches(tracker.cls) : AddBatch(data)
    \/ \E chat \in ChatItems : AddChat(chat)

SpecTracker == TrackerInit /\ [][TrackerNext]_vars

\* the last batch as offered
LastResults == response_data.results
WellFormedAt == {i \in DOMAIN LastResults : Validates(tracker.cls, LastResults[i])}
\* positions of the last batch whose id was seen before: by an earlier batch or
\* earlier in the batch
Repeats ==
    {i \in DOMAIN LastResults :
        \/ LastResults[i].id \in tracker0.ids
        \/ \E j \in 1..(i - 1) : LastResults[j].id = LastResults[i].id}

\* C23: for a batch of well-formed items, the call returns the number of distinct
\* ids of the batch that were not seen before, duplicate_count grows by one for
\* every offered item whose id was seen before (in an earlier batch or earlier
\* in this one), and the tracker holds every id once, for both trackers.
C23_TrackerDedup ==
    (batches >= 1 /\ WellFormedAt = DOMAIN LastResults) =>
        /\ new_count = Cardinality({LastResults[i].id : i \in DOMAIN LastResults} \ tracker0.ids)
        /\ tracker.duplicate_count = tracker0.duplicate_count + Cardinality(Repeats)
        /\ tracker.ids = tracker0.ids \cup {LastResults[i].id : i \in DOMAIN LastResults}
        /\ Keys(tracker.all) = tracker.ids
        /\ DistinctIds(tracker.all)
        /\ Len(tracker.all) = Len(tracker0.all) + new_count

\* a second batch with an id of the first batch and a repeat inside the batch
C23_Witness ==
    /\ batches = 2
    /\ WellFormedAt = DOMAIN LastResults
    /\ tracker0.ids # {}
    /\ new_count = 1
    /\ tracker.duplicate_count = tracker0.duplicate_count + 2

\* C24: in both trackers an item that fails the shape validation is skipped and
\* the batch goes on: every well-formed item of the batch with an unseen id is
\* added and counted in the returned number.
C24_MalformedSkipped ==
    (batches >= 1 /\ WellFormedAt # DOMAIN LastResults) =>
        LET unseen == {LastResults[i].id : i \in WellFormedAt} \ tracker0.ids
        IN  /\ unseen \subseteq tracker.ids
            /\ unseen \subseteq Keys(tracker.all)
            /\ new_count = Cardinality(unseen)

\* ------------------------------------------------------ handlers of a page
\* A URL is the sequence of its parts between slashes; the query is left out.
ListUrl == <<"api.soomgo.com", "api", "v2.4", "chats">>
MessagesUrl(chat_id) ==
    <<"api.soomgo.com", "api", "v2.2", "chats", ToString(chat_id), "messages">>
Request(endpoint) == <<"https:">> \o endpoint
\* what a page emits: the list endpoint, an endpoint below it, the messages
\* endpoints of two chats, and an endpoint elsewhere
PageUrls ==
    {Request(ListUrl), Request(ListUrl \o <<"1">>), Request(MessagesUrl(1)),
     Request(MessagesUrl(2)), Request(<<"api.soomgo.com", "api", "v2.2", "users">>)}

\* expected_url in response.url
Contains(url, expected_url) ==
    \E i \in 1..(Len(url) - Len(expected_url) + 1) :
        SubSeq(url, i, i + Len(expected_url) - 1) = expected_url

\* the scrapers with their list of raw payloads, and the results lists their
\* handler has passed to the tracker so far (handed)
PageScraper(chat_id) ==
    [f \in DOMAIN NewScraper(chat_id) \cup {"api_responses", "handed"} |->
        IF f \in {"api_responses", "handed"} THEN <<>> ELSE NewScraper(chat_id)[f]]
PageListScraper(dry_run_mode) ==
    [f \in DOMAIN NewListScraper \cup {"api_responses", "handed", "dry_run"} |->
        IF f \in {"api_responses", "handed"} THEN <<>>
        ELSE IF f = "dry_run" THEN dry_run_mode
        ELSE NewListScraper[f]]
IsMessageScraper(sc) == "chat_id" \in DOMAIN sc
\* the endpoint a scraper is made for
TargetOf(sc) == IF IsMessageScraper(sc) THEN MessagesUrl(sc.chat_id) ELSE ListUrl
PageConfig ==
    [dry_run |-> TRUE, dry_run_limit |-> MaxDryRun, date_filter |-> "all", zone |-> "Z",
     max_scrolls |-> MaxCycles]

\* the handler's body for a decoded JSON object: count, keep the raw payload,
\* pass the results to the tracker
Handled(sc, data) ==
    [(IF IsMessageScraper(sc) THEN Intercepted(sc, data)
      ELSE ListIntercepted(sc, [PageConfig EXCEPT !.dry_run = sc.dry_run], data))
        EXCEPT !.api_responses = Append(@, data), !.handed = Append(@, data.results)]

\* a handler that counts a response it could not decode as a call
intercept_api_response_counting(sc, r) ==
    IF ~(Contains(r.url, TargetOf(sc)) /\ r.status = 200) THEN sc
    ELSE IF ~r.decodes
         THEN [sc EXCEPT !.api_intercept_errors = @ + 1, !.api_call_count = @ + 1]
         ELSE Handled(sc, r.data)

\* intercept_api_response of either scraper class for a response r. What raises
\* inside the handler ends it in its outer except: the list handler's
\* save_api_response (between the count and the append, outside a dry run)
\* when the raw response file cannot be written, and data.get when the decoded
\* body is no JSON object
intercept_api_response(sc, r) ==
    IF ~(Contains(r.url, TargetOf(sc)) /\ r.status = 200) THEN sc
    ELSE IF ~r.decodes
         THEN IF IsMessageScraper(sc) THEN [sc EXCEPT !.api_intercept_errors = @ + 1] ELSE sc
         ELSE IF IsMessageScraper(sc)
              THEN IF r.object THEN Handled(sc, r.data)
                   ELSE [sc EXCEPT !.api_call_count = @ + 1,
                                   !.api_responses = Append(@, r.data)]
              ELSE IF ~sc.dry_run /\ ~r.writable
                   THEN [sc EXCEPT !.api_call_count = @ + 1]
                   ELSE IF r.object THEN Handled(sc, r.data)
                        ELSE [sc EXCEPT !.api_call_count = @ + 1,
                                        !.api_responses = Append(@, r.data)]

\* bodies as the handlers read them: next (0 for null or absent) and results
PageBodies(url) ==
    {[next |-> 0, results |-> <<>>],
     [next |-> 1, results |-> IF Contains(url, ListUrl) THEN <<ChatItemOf(1, 1)>>
                              ELSE <<MessageItemOf(1, 1)>>]}
\* the responses a page emits: a body that does not decode, one that decodes
\* to something else than an object (read as without next and results), or an
\* object; writable tells whether the raw response file can be written
Responses ==
    {r \in [url : PageUrls, status : {200, 404}, decodes : BOOLEAN, object : BOOLEAN,
            writable : BOOLEAN, data : UNION {PageBodies(u) : u \in PageUrls}] :
        /\ r.data \in PageBodies(r.url)
        /\ ~r.decodes => r.object /\ r.writable
        /\ ~(r.decodes /\ r.object) => r.data.results = <<>> /\ r.data.next = 0}

\* a page of the list run, or a worker's page at its first chat
PageInit ==
    /\ page \in {<<PageListScraper(TRUE)>>, <<PageListScraper(FALSE)>>, <<PageScraper(1)>>}
    /\ page0 = page
    /\ response = NoResponse
    /\ dispatched = 0
    /\ tracker = NoTracker /\ tracker0 = NoTracker
    /\ response_data = [results |-> <<>>] /\ new_count = 0 /\ batches = 0
    /\ analyzer_chats = <<>> /\ report = NoReport
    /\ OthersIdle

\* the worker's next chat: a new scraper registers its handler on the same page,
\* and the handler of the scraper before it stays registered
RegisterNext ==
    /\ Len(page) = 1 /\ IsMessageScraper(page[1])
    /\ page' = Append(page, PageScraper(2))
    /\ page0' = page'
    /\ response' = NoResponse
    /\ UNCHANGED <<fs, storeVars, poolVars, runVars, driverVars, dispatched, tracker,
                   tracker0, response_data, new_count, batches, analyzer_chats, report>>

\* the page emits a response: every registered handler is called with it
Emit(r) ==
    /\ dispatched < MaxResponses
    /\ page' = [i \in DOMAIN page |-> intercept_api_response(page[i], r)]
    /\ page0' = page
    /\ response' = r
    /\ dispatched' = dispatched + 1
    /\ UNCHANGED <<fs, storeVars, poolVars, runVars, driverVars, tracker,
                   tracker0, response_data, new_count, batches, analyzer_chats, report>>

PageNext ==
    \/ RegisterNext
    \/ \E r \in Responses : Emit(r)

SpecPage == PageInit /\ [][PageNext]_vars

\* the last response was a success response of the endpoint scraper i is for
OnTarget(i) ==
    /\ response # NoResponse
    /\ response.status = 200
    /\ response.url = Request(TargetOf(page0[i]))

\* C21: a success response of a message scraper's endpoint whose body does not
\* decode adds one to that scraper's intercept errors and changes nothing else
\* of it (call counter, payload list, tracked messages, has-more flag), and the
\* worker's validation sees the error.
C21_UndecodableBody ==
    \A i \in DOMAIN page :
        (IsMessageScraper(page0[i]) /\ OnTarget(i) /\ ~response.decodes) =>
            /\ page[i].api_intercept_errors = page0[i].api_intercept_errors + 1
            /\ page[i].api_call_count = page0[i].api_call_count
            /\ page[i].api_responses = page0[i].api_responses
            /\ page[i].all_messages = page0[i].all_messages
            /\ page[i].has_more_messages = page0[i].has_more_messages
            /\ page[i] = [page0[i] EXCEPT !.api_intercept_errors = @ + 1]
            /\ IsSuspicious(page[i])
            /\ FailureReason(page[i]) = <<"API intercept errors", page[i].api_intercept_errors>>

\* a payload was decoded and counted, then a body of the same endpoint was not
C21_Witness ==
    /\ dispatched = 2
    /\ IsMessageScraper(page0[1]) /\ OnTarget(1) /\ ~response.decodes
    /\ page[1].api_call_count = 1 /\ page[1].all_messages # <<>>
    /\ page[1].api_intercept_errors = 1

\* C22: a response changes a scraper only when its status is success and its URL
\* is the endpoint the scraper is for (the list endpoint, or the messages
\* endpoint of the scraper's own chat); any other response leaves every scraper
\* registered on the page as it was.
C22_OnlyOwnEndpoint ==
    \A i \in DOMAIN page : page[i] # page0[i] => OnTarget(i)

\* ------------------------------------------- store sessions over any file
\* What a store file can hold line by line when it was not left by save alone:
\* records (one id twice, with different stamps), a line that is no JSON, and a
\* JSON object that does not validate as an item.
FoundLines(p) ==
    {model_dump_json(x) : x \in {y \in ItemsAt(p) : y.id = 1 \/ y.created_at = 1}}
        \cup {<<"text", "{\"id\": 1,">>, <<"json", [id |-> 2]>>}
FoundFiles(p) == {NoFile} \cup {FileOf(ls) : ls \in SeqsUpTo(FoundLines(p), MaxLines)}

LinesInit ==
    /\ \E p \in {ListPath, get_chat_file_path(1)} :
          \E f \in FoundFiles(p), l \in SeqsUpTo(ItemsAt(p), 1) : StoreStart(p, f, l)
    /\ PoolIdle
    /\ RunIdle
    /\ DriverIdle
    /\ UnitIdle

SpecStoreLines == LinesInit /\ [][StoreNext]_vars

\* the lines of the target file load can use, and the last of them for an id
Usable == {i \in DOMAIN fs[target].lines : LineParses(target, fs[target].lines[i])}
LastUsable(k) ==
    CHOOSE i \in Usable :
        /\ fs[target].lines[i][2].id = k
        /\ \A j \in Usable : fs[target].lines[j][2].id = k => j <= i

\* C25: load skips a line that is no JSON or does not validate and loads every
\* other line: the map holds exactly the ids of the usable lines, each with the
\* record of its last usable line; a missing file gives the empty map; load
\* returns in every case (both stores).
C25_LineTolerantLoad ==
    /\ spc = "start" => ENABLED Load
    /\ spc = "loaded" =>
          /\ ~fs[target].exists => existing = <<>>
          /\ DistinctIds(existing)
          /\ Keys(existing) = {fs[target].lines[i][2].id : i \in Usable}
          /\ \A k \in Keys(existing) :
                Get(existing, k) = ParseLine(target, fs[target].lines[LastUsable(k)])

\* a message file with a line that is no JSON, then an object that does not
\* validate, then a record
C25_Witness ==
    /\ spc = "loaded" /\ ~IsListPath(target)
    /\ Len(fs[target].lines) = 3
    /\ fs[target].lines[1][1] = "text"
    /\ Usable = {3}
    /\ Len(existing) = 1

\* C28: after a save the list store file holds one line per record of the saved
\* map, in strictly ascending id order, and a chat's message file holds one line
\* per message in ascending created_at order.
C28_SavedOrder ==
    spc = "saved" =>
        LET ls == fs[target].lines
        IN  /\ fs[target].exists
            /\ Len(ls) = Len(result.merged)
            /\ \A i \in DOMAIN ls : ls[i][1] = "json"
            /\ {ls[i][2] : i \in DOMAIN ls} = Range(result.merged)
            /\ \A i, j \in DOMAIN ls : i # j => ls[i][2].id # ls[j][2].id
            /\ IF IsListPath(target)
               THEN \A i, j \in DOMAIN ls : i < j => ls[i][2].id < ls[j][2].id
               ELSE \A i, j \in DOMAIN ls : i < j => ls[i][2].created_at <= ls[j][2].created_at

\* a list store saved from a map whose insertion order is not the id order
C28_Witness ==
    /\ spc = "saved" /\ IsListPath(target)
    /\ Len(result.merged) = 2
    /\ result.merged[1].id > result.merged[2].id

\* C26: a list run whose load of the existing list store hits a read error lets
\* the error through to its caller and is finalized with status failed.
C26_LoadErrorFails ==
    (kind = "list" /\ hist.load_error) =>
        /\ rpc \in {"except", "finished"}
        /\ outcome.error # "none"
        /\ rpc = "finished" => outcome.how = "raised" /\ SummaryStatus = "failed"

\* C27: a list run deletes no stored record: every id the list store file held
\* before the run is in the file at every point of the run and after it.
C27_NoRecordLost ==
    kind = "list" => Keys(StoredList) \subseteq Keys(load(ListPath, fs))

\* ------------------------------------------------------ data quality alone
\* JSON values of a chat dict: null, a number, a string; a timestamp string
\* carries what datetime.fromisoformat makes of it: whether it parses (iso),
\* its zone ("Z" or none) and its instant
None == [t |-> "none", v |-> 0]
Num(n) == [t |-> "int", v |-> n]
Text(x) == [t |-> "str", v |-> x]
DateStr(iso, zone, at) == [t |-> "str", v |-> "date", iso |-> iso, zone |-> zone, at |-> at]
\* datetime.now() among the instants 0..3
Now == 2
\* Python truth of a value: None and "" are false
Truthy(value) == value.t # "none" /\ ~(value.t = "str" /\ value.v = "")

\* a chat dict as the analyzer reads it
ChatDict(i, zone) ==
    [id |-> Num(i),
     created_at |-> DateStr(TRUE, zone, 1),
     updated_at |-> DateStr(TRUE, zone, 1),
     last_message |-> Text("hello"),
     service |-> [title |-> Text("moving")],
     user |-> [id |-> Num(i), name |-> Text("kim"), is_banned |-> FALSE, is_dormant |-> FALSE],
     quote |-> [price |-> Num(100)],
     new_message_count |-> 0,
     provider_message_count |-> 0]
\* the record sets are drawn from: complete records with and without a zone in
\* their stamps, and one record for each thing a check looks for
QualityPool ==
    {ChatDict(1, ""), ChatDict(2, ""), ChatDict(1, "Z"),
     [ChatDict(2, "") EXCEPT !.last_message = Text(""), !.quote.price = None,
                             !.user.name = None],
     [ChatDict(1, "") EXCEPT !.created_at = None, !.updated_at = None],
     [ChatDict(1, "") EXCEPT !.created_at = DateStr(FALSE, "", 1)],
     [ChatDict(1, "") EXCEPT !.updated_at = DateStr(TRUE, "", 3)],
     [ChatDict(2, "") EXCEPT !.updated_at = DateStr(TRUE, "", 0)],
     [ChatDict(2, "") EXCEPT !.quote.price = Num(-1)],
     [ChatDict(1, "") EXCEPT !.provider_message_count = -1],
     [ChatDict(2, "") EXCEPT !.new_message_count = 51],
     [ChatDict(1, "") EXCEPT !.user.is_banned = TRUE],
     [ChatDict(2, "") EXCEPT !.user.is_dormant = TRUE]}

fields_to_check ==
    << <<"id">>, <<"created_at">>, <<"updated_at">>, <<"last_message">>,
       <<"service", "title">>, <<"user", "id">>, <<"user", "name">>, <<"quote", "price">> >>
_get_nested_field(obj, field_path) ==
    IF Len(field_path) = 1 THEN obj[field_path[1]] ELSE obj[field_path[1]][field_path[2]]

\* _check_completeness, one FieldCompleteness per checked field
FieldCompleteness(chats, field_path) ==
    LET non_null == Cardinality({i \in DOMAIN chats :
                       LET value == _get_nested_field(chats[i], field_path)
                       IN  value.t # "none" /\ ~(value.t = "str" /\ value.v = "")})
    IN  [field_name |-> field_path, total_records |-> Len(chats),
         non_null_count |-> non_null, null_count |-> Len(chats) - non_null]
_check_completeness(chats) ==
    [k \in DOMAIN fields_to_check |-> FieldCompleteness(chats, fields_to_check[k])]
RECURSIVE SumNonNull(_, _)
SumNonNull(summary, k) ==
    IF k = 0 THEN 0 ELSE summary[k].non_null_count + SumNonNull(summary, k - 1)
\* the mean of the fields' percentages
avg_completeness(summary) ==
    [num |-> 100 * SumNonNull(summary, Len(summary)),
     den |-> Len(summary) * summary[1].total_records]

\* the date block of _check_validity for one field: fromisoformat raises on
\* text that is no ISO date, and parsed > datetime.now() raises TypeError for
\* an aware datetime; the bare except reports both as invalid_date
DateIssue(date_str) ==
    IF ~Truthy(date_str) THEN "none"
    ELSE IF ~date_str.iso THEN "invalid_date"
    ELSE IF date_str.zone # "" THEN "invalid_date"
    ELSE IF date_str.at > Now THEN "future_date"
    ELSE "none"
\* the issues _check_validity appends for one chat, in its order
ChatIssues(chat) ==
    LET date(f) == IF DateIssue(chat[f]) = "none" THEN <<>>
                   ELSE <<[issue_type |-> DateIssue(chat[f]),
                           severity |-> IF DateIssue(chat[f]) = "future_date"
                                        THEN "warning" ELSE "error",
                           chat_id |-> chat.id.v, field |-> f]>>
        price == chat.quote.price
    IN  date("created_at") \o date("updated_at")
        \o (IF price.t # "none" /\ price.v < 0
            THEN <<[issue_type |-> "invalid_range", severity |-> "error",
                    chat_id |-> chat.id.v, field |-> "quote.price"]>>
            ELSE <<>>)
        \o (IF chat.new_message_count < 0 \/ chat.provider_message_count < 0
            THEN <<[issue_type |-> "invalid_range", severity |-> "error",
                    chat_id |-> chat.id.v, field |-> "message_count"]>>
            ELSE <<>>)
RECURSIVE AllIssues(_, _)
AllIssues(chats, k) ==
    IF k = 0 THEN <<>> ELSE AllIssues(chats, k - 1) \o ChatIssues(chats[k])
_check_validity(chats) ==
    LET valid_count == Cardinality({i \in DOMAIN chats : ChatIssues(chats[i]) = <<>>})
    IN  [validation_issues |-> AllIssues(chats, Len(chats)),
         valid_records_count |-> valid_count,
         invalid_records_count |-> Len(chats) - valid_count]

\* _check_consistency: ids seen before, and created_at > updated_at where both
\* parse and compare (an aware and a naive datetime do not: except, pass)
TimelineInconsistent(chat) ==
    /\ Truthy(chat.created_at) /\ Truthy(chat.updated_at)
    /\ chat.created_at.iso /\ chat.updated_at.iso
    /\ chat.created_at.zone = chat.updated_at.zone
    /\ chat.created_at.at > chat.updated_at.at
RECURSIVE _check_consistency(_, _)
_check_consistency(chats, k) ==
    IF k = 0 THEN [duplicate_ids |-> <<>>, timeline_inconsistencies |-> <<>>]
    ELSE LET before == _check_consistency(chats, k - 1)
             chat_id == chats[k].id
         IN  [duplicate_ids |->
                  IF \E j \in 1..(k - 1) : chats[j].id = chat_id
                  THEN Append(before.duplicate_ids, chat_id.v)
                  ELSE before.duplicate_ids,
              timeline_inconsistencies |->
                  IF TimelineInconsistent(chats[k])
                  THEN Append(before.timeline_inconsistencies, chat_id.v)
                  ELSE before.timeline_inconsistencies]

\* _detect_anomalies: the reports it appends, in its order. The price outliers
\* are looked for among more than ten priced records only.
_detect_anomalies(chats) ==
    LET excessive_new_msgs == {i \in DOMAIN chats : chats[i].new_message_count > 50}
        frequent_users == {u \in {chats[i].user.id : i \in DOMAIN chats} :
                              Cardinality({i \in DOMAIN chats : chats[i].user.id = u}) > 10}
        banned_count == Cardinality({i \in DOMAIN chats : chats[i].user.is_banned})
        dormant_count == Cardinality({i \in DOMAIN chats : chats[i].user.is_dormant})
        one(cond, type, severity, count) ==
            IF cond THEN <<[anomaly_type |-> type, severity |-> severity, count |-> count]>>
            ELSE <<>>
    IN  one(excessive_new_msgs # {}, "excessive_unread_messages", "warning",
            Cardinality(excessive_new_msgs))
        \o one(frequent_users # {}, "frequent_user", "info", Cardinality(frequent_users))
        \o one(banned_count > 0, "banned_users", "warning", banned_count)
        \o one(dormant_count > 0, "dormant_users", "info", dormant_count)

Max0(x) == IF x > 0 THEN x ELSE 0
CountSeverity(anomalies, severity) ==
    Cardinality({i \in DOMAIN anomalies : anomalies[i].severity = severity})
\* _calculate_quality_score: the weighted sum as a fraction over
\* 10 * den(completeness) = 80 * total_records
final_score(r) ==
    LET consistency_score == Max0(100 - 2 * Len(r.duplicate_ids)
                                      - Len(r.timeline_inconsistencies))
        anomaly_score == Max0(100 - 10 * CountSeverity(r.anomalies, "error")
                                  - 5 * CountSeverity(r.anomalies, "warning"))
        den == 10 * r.overall_completeness_percent.den
    IN  [num |-> 4 * r.overall_completeness_percent.num
                 + 30 * r.valid_records_count * (den \div r.total_records)
                 + (2 * consistency_score + anomaly_score) * (den \div 10),
         den |-> den]
\* round(final_score, 2), in hundredths
Round2(q) == (200 * q.num + q.den) \div (2 * q.den)
Grade(q) ==
    IF q.num >= 95 * q.den THEN "A+ (Excellent)"
    ELSE IF q.num >= 90 * q.den THEN "A (Very Good)"
    ELSE IF q.num >= 85 * q.den THEN "B+ (Good)"
    ELSE IF q.num >= 80 * q.den THEN "B (Acceptable)"
    ELSE IF q.num >= 70 * q.den THEN "C (Fair)"
    ELSE IF q.num >= 60 * q.den THEN "D (Poor)"
    ELSE "F (Failed)"

\* analyze(): the report after all checks
analyze(chats, r) ==
    IF chats = <<>> THEN [r EXCEPT !.quality_grade = "N/A - No Data", !.analyzed = TRUE]
    ELSE LET summary == _check_completeness(chats)
             validity == _check_validity(chats)
             consistency == _check_consistency(chats, Len(chats))
             checked == [r EXCEPT !.completeness_summary = summary,
                                  !.overall_completeness_percent = avg_completeness(summary),
                                  !.validation_issues = validity.validation_issues,
                                  !.valid_records_count = validity.valid_records_count,
                                  !.invalid_records_count = validity.invalid_records_count,
                                  !.duplicate_ids = consistency.duplicate_ids,
                                  !.timeline_inconsistencies =
                                      consistency.timeline_inconsistencies,
                                  !.anomalies = _detect_anomalies(chats)]
         IN  [checked EXCEPT !.quality_score = Round2(final_score(checked)),
                             !.quality_grade = Grade(final_score(checked)),
                             !.analyzed = TRUE]

\* analyzer = DataQualityAnalyzer(chats)
QualityInit ==
    /\ analyzer_chats \in SeqsUpTo(QualityPool, MaxRecords)
    /\ report = DataQualityReport(Len(analyzer_chats))
    /\ page = <<>> /\ page0 = <<>> /\ response = NoResponse /\ dispatched = 0
    /\ tracker = NoTracker /\ tracker0 = NoTracker
    /\ response_data = [results |-> <<>>] /\ new_count = 0 /\ batches = 0
    /\ OthersIdle

\* report = analyzer.analyze()
Analyze ==
    /\ ~report.analyzed
    /\ report' = analyze(analyzer_chats, report)
    /\ UNCHANGED <<fs, storeVars, poolVars, runVars, driverVars, page, page0, response,
                   dispatched, tracker, tracker0, response_data, new_count, batches,
                   analyzer_chats>>

QualityNext == Analyze

SpecQuality == QualityInit /\ [][QualityNext]_vars

\* the eight checked fields of a record hold a value
Populated(chat) ==
    \A k \in DOMAIN fields_to_check : Truthy(_get_nested_field(chat, fields_to_check[k]))
\* the validity checks as stated: each present stamp parses and is not in the
\* future, the price is absent or non-negative, both counters are non-negative
PassesAllChecks(chat) ==
    /\ \A f \in {"created_at", "updated_at"} :
          Truthy(chat[f]) => chat[f].iso /\ chat[f].at <= Now
    /\ chat.quote.price.t # "none" => chat.quote.price.v >= 0
    /\ chat.new_message_count >= 0 /\ chat.provider_message_count >= 0

\* the score of an analyzed record set is within [0,100] and an empty record
\* set is graded N/A
ScoreInRange ==
    report.analyzed =>
        /\ report.quality_score \in 0..10000
        /\ analyzer_chats = <<>> => report.quality_grade = "N/A - No Data"

\* C29: the quality score is within [0,100], an empty record set is graded
\* N/A, and a record set whose records have all checked fields populated, pass
\* the validity checks and show no duplicate, timeline inconsistency or
\* anomaly scores at least 90.
C29_QualityScoreBounds ==
    report.analyzed =>
        /\ report.quality_score \in 0..10000
        /\ analyzer_chats = <<>> => report.quality_grade = "N/A - No Data"
        /\ ( /\ analyzer_chats # <<>>
             /\ \A i \in DOMAIN analyzer_chats :
                   Populated(analyzer_chats[i]) /\ PassesAllChecks(analyzer_chats[i])
             /\ report.anomalies = <<>>
             /\ report.duplicate_ids = <<>>
             /\ report.timeline_inconsistencies = <<>> )
           => report.quality_score >= 9000

\* C30: a record is counted valid iff it passes all the checks; the valid and
\* invalid counts add up to the number of records; the records counted invalid
\* have an enumerated validation issue each.
C30_ValidIffPassesAll ==
    report.analyzed =>
        /\ report.valid_records_count =
              Cardinality({i \in DOMAIN analyzer_chats : PassesAllChecks(analyzer_chats[i])})
        /\ report.valid_records_count + report.invalid_records_count = Len(analyzer_chats)
        /\ report.invalid_records_count <=
              Cardinality({i \in DOMAIN analyzer_chats :
                  \E k \in DOMAIN report.validation_issues :
                      report.validation_issues[k].chat_id = analyzer_chats[i].id.v})

\* ------------------------------------------------- the assignment alone
\* chats_to_scrape as the selection leaves it (a slice of the list store's
\* values, which save writes by id) for runs with up to MaxAssignWorkers workers
AssignedLists ==
    {l \in SeqsUpTo(1..MaxAssigned, MaxAssigned) : \A i, j \in DOMAIN l : i < j => l[i] < l[j]}
AssignInit ==
    /\ dry_run \in BOOLEAN
    /\ workers \in 1..MaxAssignWorkers
    /\ filtered_chats \in AssignedLists
    /\ skip_existing = FALSE
    /\ chats_to_scrape = <<>>
    /\ fs = [q \in Paths |-> NoFile]
    /\ fs0 = fs
    /\ worker_assignments = <<>>
    /\ ppc = "select"
    /\ wpc = <<>> /\ idx = <<>> /\ scraper = <<>> /\ worker_statuses = <<>>
    /\ cur = NoTask
    /\ scraped = [c \in ChatIds |-> [returned |-> FALSE, sc |-> NewScraper(c)]]
    /\ worker_humanization = <<>>
    /\ chat_statuses = <<>>
    /\ metadata = MessageScrapingRunMetadata
    /\ run_dir = [f \in RunFiles |-> NoFile]
    /\ rpc = "try"
    /\ outcome = [how |-> "running", error |-> "none"]
    /\ StoreIdle
    /\ DriverIdle
    /\ UnitIdle

AssignNext == Partition

SpecAssign == AssignInit /\ [][AssignNext]_vars

\* C31: the chat at position i of the scrape list (counted from 0) is in the
\* list of worker i mod N, each worker's list is the input's subsequence of
\* its positions in input order, and two workers' list sizes differ by at most
\* one.
C31_RoundRobinByPosition ==
    ppc = "running" =>
        /\ DOMAIN worker_assignments = 0..(workers - 1)
        /\ \A w \in 0..(workers - 1) :
              /\ Len(worker_assignments[w]) =
                    Cardinality({i \in 0..(Len(chats_to_scrape) - 1) : i % workers = w})
              /\ \A k \in DOMAIN worker_assignments[w] :
                    worker_assignments[w][k] = chats_to_scrape[(k - 1) * workers + w + 1]
        /\ \A v, w \in 0..(workers - 1) :
              Len(worker_assignments[v]) - Len(worker_assignments[w]) \in {0 - 1, 0, 1}

\* five chats over three workers, assigned
C31_Witness ==
    /\ ppc = "running"
    /\ Len(chats_to_scrape) = 5 /\ workers = 3
    /\ Len(worker_assignments[0]) = 2 /\ Len(worker_assignments[2]) = 1

\* position of the last offer at which a well-formed item with this id came first
FirstSeenAt(id) ==
    CHOOSE i \in WellFormedAt :
        /\ LastResults[i].id = id
        /\ \A j \in WellFormedAt : LastResults[j].id = id => i <= j

\* C32: after every add, the kept items have pairwise distinct ids which are
\* the seen ids, the items kept before are still there unchanged and in place,
\* the items the add appended are in the order their ids were first offered
\* and read as first offered, and duplicate_count has not decreased.
C32_TrackerWriteOnce ==
    /\ DistinctIds(tracker.all)
    /\ Keys(tracker.all) = tracker.ids
    /\ Len(tracker0.all) <= Len(tracker.all)
    /\ SubSeq(tracker.all, 1, Len(tracker0.all)) = tracker0.all
    /\ tracker0.duplicate_count <= tracker.duplicate_count
    /\ \A a \in (Len(tracker0.all) + 1)..Len(tracker.all) :
          /\ \E i \in WellFormedAt : LastResults[i].id = tracker.all[a].id
          /\ tracker.all[a] = Validated(tracker.cls, LastResults[FirstSeenAt(tracker.all[a].id)])
          /\ \A b \in (a + 1)..Len(tracker.all) :
                FirstSeenAt(tracker.all[a].id) < FirstSeenAt(tracker.all[b].id)

\* a second add that offers a kept id with other content, after a new id
C32_Witness ==
    /\ batches = 2
    /\ tracker0.all # <<>>
    /\ Len(tracker.all) = Len(tracker0.all) + 1
    /\ tracker.duplicate_count > tracker0.duplicate_count
    /\ \E i \in WellFormedAt :
          /\ LastResults[i].id \in tracker0.ids
          /\ Validated(tracker.cls, LastResults[i]) \notin Range(tracker.all)

\* worker w is between the return of a chat's scrape and the chat's status
AfterScrape(w) == wpc[w] \in {"validated", "writing", "saved"}

\* C33: while a worker is between the return of a chat's scrape and the record
\* of its status, it alone runs: no step changes its scraper or anything of
\* another worker; the scraper is as the scrape returned it, its messages are
\* the ones handed to the merge and, after the save, the ones in the file; and
\* the status recorded at the end counts that scraper's messages, api calls
\* and scrolls (unless the save raised and the status is that of the error).
C33_NoSuspensionBeforeStatus ==
    [][ppc = "running" =>
          \A w \in WorkerIds :
              AfterScrape(w) =>
                  /\ cur = w
                  /\ scraper[w] = scraped[scraper[w].chat_id].sc
                  /\ \A v \in WorkerIds \ {w} :
                        /\ ~AfterScrape(v)
                        /\ wpc'[v] = wpc[v] /\ scraper'[v] = scraper[v] /\ idx'[v] = idx[v]
                        /\ worker_statuses'[v] = worker_statuses[v]
                  /\ AfterScrape(w)' => scraper'[w] = scraper[w]
                  /\ wpc[w] \in {"writing", "saved"} =>
                        /\ incoming = scraper[w].all_messages
                        /\ Range(incoming) \subseteq Range(sorted_items)
                  /\ wpc[w] = "saved" =>
                        Range(scraper[w].all_messages) \subseteq
                            Range(load(get_chat_file_path(scraper[w].chat_id), fs))
                  /\ wpc'[w] = "next" =>
                        LET st == worker_statuses'[w][Len(worker_statuses'[w])]
                        IN  /\ Len(worker_statuses'[w]) = Len(worker_statuses[w]) + 1
                            /\ st.chat_id = scraper[w].chat_id
                            /\ st.error = <<"save error", 0>>
                               \/ /\ st.message_count = Len(scraper[w].all_messages)
                                  /\ st.api_calls = scraper[w].api_call_count
                                  /\ st.scroll_iterations = scraper[w].scroll_count ]_vars

\* a worker has saved a chat's messages and recorded its status while the other
\* worker was inside the scrape of its own chat with a payload taken
C33_Witness ==
    /\ ppc = "running" /\ ~dry_run /\ workers = 2
    /\ \E w \in WorkerIds : \E v \in WorkerIds \ {w} :
          /\ Len(worker_statuses[w]) = 1
          /\ worker_statuses[w][1].status = "success"
          /\ worker_statuses[w][1].message_count = 1
          /\ worker_statuses[w][1].api_calls = 1
          /\ wpc[v] = "scraping" /\ scraper[v].api_call_count = 1

\* C34: after any sequence of responses, every scraper's call counter is the
\* length of its list of raw payloads, and the results of each counted payload
\* were passed to the tracker once, in the order of the payloads.
C34_CounterIsAuditLength ==
    \A i \in DOMAIN page :
        /\ page[i].api_call_count = Len(page[i].api_responses)
        /\ Len(page[i].handed) = page[i].api_call_count
        /\ \A k \in DOMAIN page[i].handed :
              k \in DOMAIN page[i].api_responses
                  /\ page[i].handed[k] = page[i].api_responses[k].results

\* C35: a dry run writes nothing to the stores: in a dry message run every
\* store path (the chats' files and their temp files) is as it was before the
\* run, in a dry list run the list store file is the one the run found and no
\* other store path exists, at every point of the run and after it.
C35_DryRunWritesNothing ==
    /\ (ppc # "off" /\ dry_run) => \A q \in Paths : fs[q] = fs0[q]
    /\ (kind = "list" /\ config.dry_run) =>
          fs = [q \in Paths |-> IF q = ListPath THEN FileOf(DumpAll(StoredList)) ELSE NoFile]

\* a dry message run is through, one of its chats recorded as success with a
\* message that its file does not hold
C35_Witness ==
    /\ dry_run /\ rpc = "finished" /\ outcome.how = "returned"
    /\ \E i \in DOMAIN chat_statuses :
          /\ chat_statuses[i].status = "success"
          /\ chat_statuses[i].message_count >= 1
          /\ ~fs[get_chat_file_path(chat_statuses[i].chat_id)].exists

\* ------------------------------------------------ runs with skip_existing
\* scrape_chat_messages(dry_run=False, skip_existing=True)
SkipInit ==
    /\ dry_run = FALSE
    /\ skip_existing = TRUE
    /\ workers \in 1..MaxWorkers
    /\ filtered_chats \in ChatLists
    /\ chats_to_scrape = <<>>
    /\ fs \in {f \in [Paths -> StoredBefore] :
                  \A q \in Paths : f[q].exists => q \in {get_chat_file_path(c) : c \in ChatIds}}
    /\ fs0 = fs
    /\ worker_assignments = <<>>
    /\ ppc = "select"
    /\ wpc = <<>> /\ idx = <<>> /\ scraper = <<>> /\ worker_statuses = <<>>
    /\ cur = NoTask
    /\ scraped = [c \in ChatIds |-> [returned |-> FALSE, sc |-> NewScraper(c)]]
    /\ worker_humanization = <<>>
    /\ chat_statuses = <<>>
    /\ metadata = MessageScrapingRunMetadata
    /\ run_dir = [f \in RunFiles |-> NoFile]
    /\ rpc = "try"
    /\ outcome = [how |-> "running", error |-> "none"]
    /\ StoreIdle
    /\ DriverIdle
    /\ UnitIdle

SpecSkip == SkipInit /\ [][PoolNext]_vars

\* the chats of the filtered list whose message file was there before the run
ExistedBefore == {c \in Range(filtered_chats) : fs0[get_chat_file_path(c)].exists}

\* C36: in a non-dry run with skip_existing the selection is the filtered list
\* without the chats whose message file existed, no worker's list holds such a
\* chat, the files that existed before the run stay as they were all through
\* the run, and up to the first chat's start (the existence checks included)
\* no store path has changed.
C36_SkipExisting ==
    /\ ppc = "select" => fs = fs0
    /\ ppc # "select" =>
          /\ chats_to_scrape = SelectSeq(filtered_chats, LAMBDA c : c \notin ExistedBefore)
          /\ \A w \in WorkerIds : Range(worker_assignments[w]) \cap ExistedBefore = {}
          /\ (\A w \in WorkerIds : idx[w] = 0 /\ wpc[w] = "next") => fs = fs0
    /\ \A q \in Paths : fs0[q].exists => fs[q] = fs0[q]

\* a run over two chats is through: the chat with a file was skipped, the
\* other one was scraped and its messages saved
C36_Witness ==
    /\ rpc = "finished" /\ outcome.how = "returned"
    /\ Len(filtered_chats) = 2 /\ Cardinality(ExistedBefore) = 1
    /\ Len(chat_statuses) = 1
    /\ chat_statuses[1].status = "success"
    /\ chat_statuses[1].chat_id \notin ExistedBefore
    /\ fs[get_chat_file_path(chat_statuses[1].chat_id)].exists

\* C37: a driver run that returned has the max-scroll warning in its log only
\* when it stopped at the cap, after max_scrolls cycles; a run that left its
\* loop on the exhaustion signal or the dry-run limit has no such warning.
C37_CapWarningOnlyAtCap ==
    (dpc = "returned" /\ "max scroll warning" \in dlog) =>
        /\ driver.scroll_count = config.max_scrolls
        /\ "all loaded" \notin dlog
        /\ "dry run limit" \notin dlog

\* the messages of the success statuses
RECURSIVE SuccessMessages(_)
SuccessMessages(statuses) ==
    IF statuses = <<>> THEN 0
    ELSE (IF Head(statuses).status = "success" THEN Head(statuses).message_count ELSE 0)
         + SuccessMessages(Tail(statuses))

\* C38: after the aggregation of a message run chats_attempted is the number
\* of collected statuses and the sum of chats_succeeded and chats_failed,
\* total_messages_scraped is the sum of message_count over the success
\* statuses, and when no worker task raised the collected statuses hold
\* exactly one status for each chat selected for scraping.
C38_AggregatedCounters ==
    ppc = "gathered" =>
        /\ metadata.chats_attempted = Len(chat_statuses)
        /\ metadata.chats_attempted = metadata.chats_succeeded + metadata.chats_failed
        /\ metadata.total_messages_scraped = SuccessMessages(chat_statuses)
        /\ Raised = {} =>
              /\ Len(chat_statuses) = Len(chats_to_scrape)
              /\ \A i \in DOMAIN chats_to_scrape :
                    Cardinality({j \in DOMAIN chat_statuses :
                                    chat_statuses[j].chat_id = chats_to_scrape[i]}) = 1
C38_Witness ==
    /\ ppc = "gathered" /\ Raised = {}
    /\ workers = 2
    /\ Len(chats_to_scrape) = MaxChats
    /\ metadata.chats_succeeded >= 1
    /\ metadata.chats_failed >= 1
    /\ metadata.total_messages_scraped >= 1

====
